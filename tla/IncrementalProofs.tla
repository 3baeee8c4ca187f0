------------------------- MODULE IncrementalProofs -------------------------
(***************************************************************************)
(* Proofs about Incremental, for every alphabet, bound and leaf length.    *)
(***************************************************************************)
EXTENDS Incremental, BlockParserProofs, FiniteSetTheorems, SequenceTheorems

(***************************************************************************)
(* The parse is a recursive function: it exists, because every finite part *)
(* of it does.                                                             *)
(***************************************************************************)
Runs(lns, m, b, g) ==
  g = [n \in 0 .. b |-> IF n = 0 THEN ParserStart ELSE Step(lns, m, g[n - 1])]

LEMMA RunExists ==
  ASSUME NEW lns, NEW m, NEW b \in Nat
  PROVE  \E g : Runs(lns, m, b, g)
<1> DEFINE S == { n \in Nat : \E g : Runs(lns, m, n, g) }
<1>1. 0 \in S
  <2>1. Runs(lns, m, 0, [n \in 0 .. 0 |-> ParserStart])
    BY DEF Runs
  <2> QED BY <2>1
<1>2. ASSUME NEW k \in 0 .. b - 1, k \in S PROVE k + 1 \in S
  <2>1. PICK g : Runs(lns, m, k, g)
    BY <1>2
  <2> DEFINE h == [n \in 0 .. k + 1 |-> IF n = 0 THEN ParserStart ELSE Step(lns, m, g[n - 1])]
  <2>2. ASSUME NEW n \in 0 .. k PROVE h[n] = g[n]
    BY <2>1 DEF Runs
  <2>3. ASSUME NEW n \in 0 .. k + 1
        PROVE h[n] = IF n = 0 THEN ParserStart ELSE Step(lns, m, h[n - 1])
    <3>1. CASE n = 0
      BY <3>1
    <3>2. CASE n # 0
      <4>1. n - 1 \in 0 .. k
        BY <3>2
      <4>2. h[n - 1] = g[n - 1]
        BY <2>2, <4>1
      <4> QED BY <3>2, <4>2
    <3> QED BY <3>1, <3>2
  <2>4. Runs(lns, m, k + 1, h)
    <3>1. h = [n \in 0 .. k + 1 |-> h[n]]
      OBVIOUS
    <3> HIDE DEF h
    <3> QED BY <2>3, <3>1 DEF Runs
  <2> QED BY <2>4
<1>3. 0 .. b \subseteq S
  <2> HIDE DEF S
  <2> QED BY <1>1, <1>2, UpTo
<1> QED BY <1>3

LEMMA ParseIsRun ==
  ASSUME NEW lns, NEW m, Len(lns) \in Nat
  PROVE  \E g : /\ Runs(lns, m, 2 * Len(lns), g)
                /\ ParseBlocks(lns, m) = g[2 * Len(lns)].blocks
<1> DEFINE g == CHOOSE h : h = [n \in 0 .. 2 * Len(lns) |->
                                  IF n = 0 THEN ParserStart ELSE Step(lns, m, h[n - 1])]
<1>1. \E h : Runs(lns, m, 2 * Len(lns), h)
  BY RunExists
<1>2. Runs(lns, m, 2 * Len(lns), g)
  BY <1>1, Zenon DEF Runs
<1>3. ParseBlocks(lns, m) = g[2 * Len(lns)].blocks
  BY Zenon DEF ParseBlocks
<1> QED BY <1>2, <1>3

(***************************************************************************)
(* Each step takes a line or ends a loop, so that the parse is finished    *)
(* after two steps for each line.                                          *)
(***************************************************************************)
Rank(s) == 2 * s.i - (IF s.open = "none" THEN 0 ELSE 1)

LEMMA RankType ==
  ASSUME NEW lns, NEW s, Sound(lns, s)
  PROVE  Rank(s) \in Int
BY DEF Rank, Sound

LEMMA StepRanks ==
  ASSUME NEW lns \in Seq(Line), NEW m \in Modes, NEW s, Sound(lns, s), Tiles(lns, m, s)
  PROVE  LET t == Step(lns, m, s)
         IN  /\ Sound(lns, t) /\ Tiles(lns, m, t)
             /\ Finished(lns, s) => t = s
             /\ ~ Finished(lns, s) => Rank(t) > Rank(s)
<1> DEFINE t == Step(lns, m, s)
<1>1. CASE Finished(lns, s)
  <2>1. t = s
    BY <1>1, Zenon DEF Step, Finished
  <2> QED BY <1>1, <2>1
<1>2. CASE ~ Finished(lns, s)
  <2>1. Shape(lns, m, s, t)
    BY <1>2, StepShape
  <2> HIDE DEF t
  <2>2. Sound(lns, t) /\ (t.i > s.i \/ (s.open # "none" /\ t.open = "none"))
    BY <2>1, ShapeFields
  <2>3. Tiles(lns, m, t)
    BY <2>1, TileEmit, TileFold, TileExtend DEF Shape
  <2>4. t.i >= s.i
    <3>1. CASE Emits(lns, s, t)
      BY <3>1 DEF Emits, Emit, Sound
    <3>2. CASE Folds(lns, m, s, t)
      BY <3>2 DEF Folds, Sound
    <3>3. CASE Extends(lns, s, t)
      BY <3>3 DEF Extends, Sound
    <3> QED BY <2>1, <3>1, <3>2, <3>3 DEF Shape
  <2>5. s.i \in Nat /\ t.i \in Nat
    BY <2>2 DEF Sound
  <2>6. Rank(t) > Rank(s)
    BY <2>2, <2>4, <2>5 DEF Rank
  <2> QED BY <1>2, <2>2, <2>3, <2>6 DEF t
<1> QED BY <1>1, <1>2

LEMMA RunFinishes ==
  ASSUME NEW lns \in Seq(Line), NEW m \in Modes, NEW g, Runs(lns, m, 2 * Len(lns), g)
  PROVE  LET s == g[2 * Len(lns)]
         IN  Sound(lns, s) /\ Tiles(lns, m, s) /\ Finished(lns, s)
<1> DEFINE b == 2 * Len(lns)
           S == { n \in 0 .. b : /\ Sound(lns, g[n]) /\ Tiles(lns, m, g[n])
                                 /\ Finished(lns, g[n]) \/ Rank(g[n]) >= n }
<1>0. b \in Nat /\ Len(lns) \in Nat
  OBVIOUS
<1>1. 0 \in S
  <2>1. g[0] = ParserStart
    BY <1>0 DEF Runs
  <2>2. Sound(lns, ParserStart)
    BY DEF Sound, ParserStart
  <2>3. Tiles(lns, m, ParserStart)
    BY DEF Tiles, ParserStart
  <2>4. Rank(ParserStart) = 0
    BY DEF Rank, ParserStart
  <2> QED BY <1>0, <2>1, <2>2, <2>3, <2>4
<1>2. ASSUME NEW n \in 0 .. b - 1, n \in S PROVE n + 1 \in S
  <2>1. g[n + 1] = Step(lns, m, g[n])
    BY <1>0 DEF Runs
  <2>2. /\ Sound(lns, g[n]) /\ Tiles(lns, m, g[n])
        /\ Finished(lns, g[n]) \/ Rank(g[n]) >= n
    BY <1>2
  <2>3. /\ Sound(lns, g[n + 1]) /\ Tiles(lns, m, g[n + 1])
        /\ Finished(lns, g[n]) => g[n + 1] = g[n]
        /\ ~ Finished(lns, g[n]) => Rank(g[n + 1]) > Rank(g[n])
    BY <2>1, <2>2, StepRanks
  <2>4. Rank(g[n]) \in Int /\ Rank(g[n + 1]) \in Int
    BY <2>2, <2>3, RankType
  <2>5. Finished(lns, g[n + 1]) \/ Rank(g[n + 1]) >= n + 1
    <3>1. CASE Finished(lns, g[n])
      BY <2>3, <3>1
    <3>2. CASE ~ Finished(lns, g[n])
      <4> HIDE DEF b
      <4> QED BY <2>2, <2>3, <2>4, <3>2
    <3> QED BY <3>1, <3>2
  <2> QED BY <1>0, <2>3, <2>5
<1>3. b \in S
  <2>1. 0 .. b \subseteq S
    <3> HIDE DEF S, b
    <3> QED BY <1>0, <1>1, <1>2, UpTo
  <2> QED BY <1>0, <2>1
<1>4. /\ Sound(lns, g[b]) /\ Tiles(lns, m, g[b])
      /\ Finished(lns, g[b]) \/ Rank(g[b]) >= b
  BY <1>3
<1>5. ASSUME Rank(g[b]) >= b PROVE Finished(lns, g[b])
  <2>1. g[b].i \in 0 .. Len(lns)
    BY <1>4 DEF Sound
  <2> QED BY <1>0, <1>5, <2>1 DEF Rank, Finished
<1> QED BY <1>4, <1>5

(***************************************************************************)
(* Blocks that lie end to end from line "start" to line "end".             *)
(***************************************************************************)
Chain(bs, start, end) ==
  /\ bs = <<>> <=> start = end
  /\ \A k \in 1 .. Len(bs) :
       /\ bs[k].first \in Nat /\ bs[k].last \in Nat
       /\ bs[k].first < bs[k].last
       /\ bs[k].first = (IF k = 1 THEN start ELSE bs[k - 1].last)
  /\ bs # <<>> => bs[Len(bs)].last = end

\* So an editable parse cuts the lines of a text.
LEMMA ParseCuts ==
  ASSUME NEW lns \in Seq(Line)
  PROVE  /\ ParseBlocks(lns, "Editable") \in Seq(Block)
         /\ Chain(ParseBlocks(lns, "Editable"), 0, Len(lns))
<1>1. PICK g : /\ Runs(lns, "Editable", 2 * Len(lns), g)
               /\ ParseBlocks(lns, "Editable") = g[2 * Len(lns)].blocks
  BY ParseIsRun
<1> DEFINE s  == g[2 * Len(lns)]
           bs == s.blocks
<1>2. Sound(lns, s) /\ Tiles(lns, "Editable", s) /\ Finished(lns, s)
  BY <1>1, RunFinishes DEF Modes
<1> HIDE DEF s
<1>3. bs \in Seq(Block) /\ s.from = Len(lns) /\ Len(lns) \in Nat
  BY <1>2 DEF Sound, Finished
<1>4. ASSUME NEW k \in 1 .. Len(bs)
      PROVE  bs[k].first < bs[k].last /\ bs[k].last = StartOf(s, k + 1)
  <2>1. TileAt(lns, "Editable", bs[k], StartOf(s, k + 1))
    BY <1>2 DEF Tiles
  <2>2. bs[k] \in Block
    BY <1>3
  <2>3. bs[k].last \in Nat /\ bs[k].first < bs[k].last
    BY <2>1, <2>2 DEF TileAt, Block
  <2>4. StartOf(s, k + 1) \in Nat
    <3>1. CASE k + 1 > Len(bs)
      BY <1>3, <3>1 DEF StartOf
    <3>2. CASE k + 1 <= Len(bs)
      <4>1. bs[k + 1] \in Block
        BY <1>3, <3>2
      <4> QED BY <1>3, <3>2, <4>1 DEF StartOf, Block
    <3> QED BY <1>3, <3>1, <3>2
  <2>5. ~ (bs[k].last < StartOf(s, k + 1))
    BY <2>1, <2>3, <2>4 DEF TileAt, Blank
  <2>6. bs[k].last <= StartOf(s, k + 1)
    BY <2>1 DEF TileAt
  <2> QED BY <2>3, <2>4, <2>5, <2>6
<1>5. bs = <<>> => Len(lns) = 0
  BY <1>2, <1>3 DEF Tiles
<1>6. ASSUME bs # <<>> PROVE bs[1].first = 0 /\ bs[Len(bs)].last = Len(lns) /\ Len(lns) # 0
  <2>1. Len(bs) \in 1 .. Len(bs)
    BY <1>3, <1>6
  <2>2. bs[1].first = 0
    BY <1>2, <1>6 DEF Tiles
  <2>3. bs[Len(bs)].last = Len(lns) /\ bs[Len(bs)].first < bs[Len(bs)].last
    BY <1>3, <1>4, <2>1 DEF StartOf
  <2>4. bs[Len(bs)] \in Block
    BY <1>3, <2>1
  <2> QED BY <2>2, <2>3, <2>4 DEF Block
<1>7. ASSUME NEW k \in 2 .. Len(bs) PROVE bs[k].first = bs[k - 1].last
  <2>1. k - 1 \in 1 .. Len(bs) /\ ~ (k - 1 + 1 > Len(bs)) /\ k - 1 + 1 = k
    BY <1>3
  <2> QED BY <1>4, <2>1 DEF StartOf
<1>8. ParseBlocks(lns, "Editable") = bs
  BY <1>1 DEF s
<1> HIDE DEF bs
<1>9. \A k \in 1 .. Len(bs) : k = 1 \/ k \in 2 .. Len(bs)
  BY <1>3
<1>10. \A k \in 1 .. Len(bs) : bs[k].first \in Nat /\ bs[k].last \in Nat
  <2> TAKE k \in 1 .. Len(bs)
  <2>1. bs[k] \in Block
    BY <1>3
  <2> QED BY <2>1 DEF Block
<1>11. Chain(bs, 0, Len(lns))
  BY <1>3, <1>4, <1>5, <1>6, <1>7, <1>9, <1>10 DEF Chain
<1> QED BY <1>3, <1>8, <1>11

LEMMA ChainOrdered ==
  ASSUME NEW A, NEW bs \in Seq(A), NEW start, NEW end, Chain(bs, start, end),
         NEW j \in 1 .. Len(bs), NEW k \in 1 .. Len(bs), j < k
  PROVE  bs[j].last <= bs[k].first
<1> DEFINE b == Len(bs) - j - 1
           S == { d \in 0 .. b : bs[j].last <= bs[j + d + 1].first }
<1>0. Len(bs) \in Nat /\ b \in Nat
  OBVIOUS
<1>1. \A n \in 2 .. Len(bs) : /\ bs[n].first = bs[n - 1].last
                              /\ bs[n].first < bs[n].last
                              /\ bs[n].first \in Nat /\ bs[n].last \in Nat
  BY <1>0 DEF Chain
<1>2. 0 \in S
  <2>1. j + 1 \in 2 .. Len(bs) /\ j + 1 - 1 = j /\ j + 0 + 1 = j + 1
    BY <1>0
  <2>2. bs[j + 1].first = bs[j].last /\ bs[j + 1].first \in Nat
    BY <1>1, <2>1
  <2> QED BY <1>0, <2>1, <2>2
<1>3. ASSUME NEW d \in 0 .. b - 1, d \in S PROVE d + 1 \in S
  <2>1. /\ j + (d + 1) + 1 \in 2 .. Len(bs) /\ j + (d + 1) + 1 - 1 = j + d + 1
        /\ j + d + 1 \in 2 .. Len(bs)
    BY <1>0
  <2>2. /\ bs[j + (d + 1) + 1].first = bs[j + d + 1].last
        /\ bs[j + d + 1].first < bs[j + d + 1].last
        /\ bs[j + d + 1].first \in Nat /\ bs[j + d + 1].last \in Nat
    BY <1>1, <2>1
  <2>3. bs[j].last <= bs[j + d + 1].first /\ bs[j].last \in Nat
    BY <1>3 DEF Chain
  <2>4. bs[j].last <= bs[j + (d + 1) + 1].first
    <3> DEFINE p == bs[j + d + 1]
               q == bs[j + (d + 1) + 1]
    <3>1. /\ q.first = p.last /\ p.first < p.last /\ p.first \in Nat /\ p.last \in Nat
          /\ bs[j].last <= p.first /\ bs[j].last \in Nat
      BY <2>2, <2>3, Zenon
    <3> HIDE DEF p, q, S, b
    <3> QED BY <3>1 DEF q
  <2>5. d + 1 \in 0 .. b
    BY <1>0
  <2> QED BY <2>4, <2>5
<1>4. 0 .. b \subseteq S
  <2> HIDE DEF S, b
  <2> QED BY <1>0, <1>2, <1>3, UpTo
<1>5. k - j - 1 \in 0 .. b /\ j + (k - j - 1) + 1 = k
  BY <1>0
<1>6. k - j - 1 \in S
  BY <1>4, <1>5
<1> QED BY <1>5, <1>6

LEMMA ChainBounds ==
  ASSUME NEW A, NEW bs \in Seq(A), NEW start, NEW end, Chain(bs, start, end),
         NEW k \in 1 .. Len(bs)
  PROVE  /\ bs[k].first \in Nat /\ bs[k].last \in Nat /\ start \in Nat /\ end \in Nat
         /\ start <= bs[k].first /\ bs[k].first < bs[k].last /\ bs[k].last <= end
         /\ k < Len(bs) => bs[k].last = bs[k + 1].first /\ bs[k].last < end
<1>0. Len(bs) \in Nat /\ bs # <<>>
  OBVIOUS
<1>1. /\ bs[k].first \in Nat /\ bs[k].last \in Nat /\ bs[k].first < bs[k].last
      /\ bs[1].first = start /\ bs[1].first \in Nat /\ bs[1].last \in Nat
      /\ bs[1].first < bs[1].last
      /\ bs[Len(bs)].last = end /\ bs[Len(bs)].last \in Nat /\ bs[Len(bs)].first \in Nat
      /\ bs[Len(bs)].first < bs[Len(bs)].last
  <2>1. 1 \in 1 .. Len(bs) /\ Len(bs) \in 1 .. Len(bs)
    BY <1>0
  <2> QED BY <1>0, <2>1 DEF Chain
<1>2. start <= bs[k].first
  <2>1. CASE k = 1
    BY <1>1, <2>1
  <2>2. CASE k # 1
    <3>1. bs[1].last <= bs[k].first
      <4>1. 1 \in 1 .. Len(bs) /\ 1 < k
        BY <1>0, <2>2
      <4> QED BY <4>1, ChainOrdered
    <3> QED BY <1>1, <3>1
  <2> QED BY <2>1, <2>2
<1>3. k < Len(bs) => bs[k].last <= bs[Len(bs)].first
  <2>1. Len(bs) \in 1 .. Len(bs)
    BY <1>0
  <2> QED BY <2>1, ChainOrdered
<1>4. k < Len(bs) => bs[k].last = bs[k + 1].first
  <2> SUFFICES ASSUME k < Len(bs) PROVE bs[k].last = bs[k + 1].first
    OBVIOUS
  <2>1. k + 1 \in 1 .. Len(bs) /\ k + 1 # 1 /\ k + 1 - 1 = k
    BY <1>0
  <2> QED BY <2>1 DEF Chain
<1>5. k < Len(bs) \/ k = Len(bs)
  BY <1>0
<1> QED BY <1>1, <1>2, <1>3, <1>4, <1>5

\* Two chains make one.
LEMMA ChainConcat ==
  ASSUME NEW A, NEW bs \in Seq(A), NEW cs \in Seq(A), NEW p \in Nat, NEW q \in Nat, NEW r \in Nat,
         Chain(bs, p, q), Chain(cs, q, r)
  PROVE  Chain(bs \o cs, p, r)
<1> DEFINE ds == bs \o cs
           m  == Len(bs)
           n  == Len(cs)
<1>1. /\ ds \in Seq(A) /\ Len(ds) = m + n /\ m \in Nat /\ n \in Nat
      /\ \A k \in 1 .. m + n : ds[k] = IF k <= m THEN bs[k] ELSE cs[k - m]
  BY ConcatProperties
<1>2. bs = <<>> <=> m = 0
  OBVIOUS
<1>3. cs = <<>> <=> n = 0
  OBVIOUS
<1>4. ds = <<>> <=> m + n = 0
  BY <1>1
<1>5. m = 0 => p = q
  BY <1>2 DEF Chain
<1>6. n = 0 => q = r
  BY <1>3 DEF Chain
<1>7. m > 0 => p < q /\ bs[m].last = q /\ bs[1].first = p
  <2> SUFFICES ASSUME m > 0 PROVE p < q /\ bs[m].last = q /\ bs[1].first = p
    OBVIOUS
  <2>1. 1 \in 1 .. Len(bs) /\ m \in 1 .. Len(bs) /\ bs # <<>>
    BY <1>1
  <2>2. p <= bs[1].first /\ bs[1].first < bs[1].last /\ bs[1].last <= q
        /\ bs[1].first \in Nat /\ bs[1].last \in Nat
    BY <2>1, ChainBounds
  <2>3. bs[m].last = q /\ bs[1].first = p
    BY <2>1 DEF Chain
  <2> QED BY <2>2, <2>3
<1>8. n > 0 => q < r /\ cs[n].last = r /\ cs[1].first = q
  <2> SUFFICES ASSUME n > 0 PROVE q < r /\ cs[n].last = r /\ cs[1].first = q
    OBVIOUS
  <2>1. 1 \in 1 .. Len(cs) /\ n \in 1 .. Len(cs) /\ cs # <<>>
    BY <1>1
  <2>2. q <= cs[1].first /\ cs[1].first < cs[1].last /\ cs[1].last <= r
        /\ cs[1].first \in Nat /\ cs[1].last \in Nat
    BY <2>1, ChainBounds
  <2>3. cs[n].last = r /\ cs[1].first = q
    BY <2>1 DEF Chain
  <2> QED BY <2>2, <2>3
<1> HIDE DEF ds, m, n
<1>9. ds = <<>> <=> p = r
  BY <1>1, <1>4, <1>5, <1>6, <1>7, <1>8
<1>10. ASSUME NEW k \in 1 .. m + n
       PROVE  /\ ds[k].first \in Nat /\ ds[k].last \in Nat /\ ds[k].first < ds[k].last
              /\ ds[k].first = (IF k = 1 THEN p ELSE ds[k - 1].last)
  <2>1. CASE k <= m
    <3>1. k \in 1 .. m
      BY <1>1, <2>1
    <3>2. /\ bs[k].first \in Nat /\ bs[k].last \in Nat /\ bs[k].first < bs[k].last
          /\ bs[k].first = (IF k = 1 THEN p ELSE bs[k - 1].last)
      BY <3>1 DEF Chain, m
    <3>3. ds[k] = bs[k] /\ (k # 1 => ds[k - 1] = bs[k - 1])
      BY <1>1, <3>1
    <3> QED BY <3>2, <3>3
  <2>2. CASE k > m
    <3>1. k - m \in 1 .. n
      BY <1>1, <2>2
    <3>2. /\ cs[k - m].first \in Nat /\ cs[k - m].last \in Nat /\ cs[k - m].first < cs[k - m].last
          /\ cs[k - m].first = (IF k - m = 1 THEN q ELSE cs[k - m - 1].last)
      BY <3>1 DEF Chain, n
    <3>3. ds[k] = cs[k - m]
      BY <1>1, <2>2
    <3>4. CASE k - m = 1
      <4>1. m = 0 => k = 1
        BY <1>1, <3>4
      <4>2. m > 0 => k # 1 /\ k - 1 = m /\ ds[k - 1] = bs[m]
        BY <1>1, <3>4
      <4>3. m = 0 \/ m > 0
        BY <1>1
      <4> QED BY <1>5, <1>7, <3>2, <3>3, <3>4, <4>1, <4>2, <4>3
    <3>5. CASE k - m # 1
      <4>1. k # 1 /\ k - 1 \in 1 .. m + n /\ ~ (k - 1 <= m) /\ k - 1 - m = k - m - 1
        BY <1>1, <2>2, <3>1, <3>5
      <4>2. ds[k - 1] = cs[k - m - 1]
        BY <1>1, <4>1
      <4> QED BY <3>2, <3>3, <3>5, <4>1, <4>2
    <3> QED BY <3>4, <3>5
  <2> QED BY <1>1, <2>1, <2>2
<1>11. ds # <<>> => ds[m + n].last = r
  <2>1. CASE n > 0
    <3>1. ds[m + n] = cs[n]
      BY <1>1, <2>1
    <3> QED BY <1>8, <2>1, <3>1
  <2>2. CASE n = 0
    <3> SUFFICES ASSUME ds # <<>> PROVE ds[m + n].last = r
      OBVIOUS
    <3>1. m > 0 /\ m + n = m
      BY <1>1, <1>4, <2>2
    <3>2. ds[m] = bs[m]
      BY <1>1, <3>1
    <3> QED BY <1>6, <1>7, <2>2, <3>1, <3>2
  <2> QED BY <1>1, <2>1, <2>2
<1>12. Chain(ds, p, r)
  BY <1>1, <1>9, <1>10, <1>11 DEF Chain
<1> QED BY <1>12 DEF ds

(***************************************************************************)
(* Offsets are sums of the lengths of lines.                               *)
(***************************************************************************)
Lengths == {LeafBytes, LeafUnits}

Sums(ls, len, b, g) ==
  g = [n \in 0 .. b |-> IF n = 0 THEN 0 ELSE g[n - 1] + LineLength(ls[n], len)]

Sum(ls, len) == CHOOSE g : Sums(ls, len, Len(ls), g)

LEMMA LineLengthType ==
  ASSUME NEW l \in Line, NEW len \in Lengths
  PROVE  Markup(l) \in Nat /\ LineLength(l, len) \in Nat /\ LineLength(l, len) > Markup(l)
<1>1. len[l.leaf] \in Nat
  BY IncrementalAssumption DEF Lengths, Line
<1>2. l.sp \in Nat /\ l.gap \in Nat /\ l.mark \in Marks
  BY DEF Line
<1>3. (CASE l.mark = "none" -> 0 [] l.mark = "check" -> 6 [] OTHER -> MarkWidth(l.mark)) \in Nat
  BY <1>2 DEF Marks, MarkWidth
<1>4. Markup(l) \in Nat
  BY <1>2, <1>3 DEF Markup
<1> QED BY <1>1, <1>4 DEF LineLength

LEMMA SumExists ==
  ASSUME NEW ls, NEW len, NEW b \in Nat
  PROVE  \E g : Sums(ls, len, b, g)
<1> DEFINE S == { n \in Nat : \E g : Sums(ls, len, n, g) }
<1>1. 0 \in S
  <2>1. Sums(ls, len, 0, [n \in 0 .. 0 |-> 0])
    BY DEF Sums
  <2> QED BY <2>1
<1>2. ASSUME NEW k \in 0 .. b - 1, k \in S PROVE k + 1 \in S
  <2>1. PICK g : Sums(ls, len, k, g)
    BY <1>2
  <2> DEFINE h == [n \in 0 .. k + 1 |-> IF n = 0 THEN 0 ELSE g[n - 1] + LineLength(ls[n], len)]
  <2>2. ASSUME NEW n \in 0 .. k PROVE h[n] = g[n]
    BY <2>1 DEF Sums
  <2>3. ASSUME NEW n \in 0 .. k + 1
        PROVE h[n] = IF n = 0 THEN 0 ELSE h[n - 1] + LineLength(ls[n], len)
    <3>1. CASE n = 0
      BY <3>1
    <3>2. CASE n # 0
      <4>1. n - 1 \in 0 .. k
        BY <3>2
      <4>2. h[n - 1] = g[n - 1]
        BY <2>2, <4>1
      <4> QED BY <3>2, <4>2
    <3> QED BY <3>1, <3>2
  <2>4. Sums(ls, len, k + 1, h)
    <3>1. h = [n \in 0 .. k + 1 |-> h[n]]
      OBVIOUS
    <3> HIDE DEF h
    <3> QED BY <2>3, <3>1 DEF Sums
  <2> QED BY <2>4
<1>3. 0 .. b \subseteq S
  <2> HIDE DEF S
  <2> QED BY <1>1, <1>2, UpTo
<1> QED BY <1>3

LEMMA SumSteps ==
  ASSUME NEW ls \in Seq(Line), NEW len \in Lengths
  PROVE  /\ Sum(ls, len)[0] = 0
         /\ \A k \in 0 .. Len(ls) : Sum(ls, len)[k] \in Nat
         /\ \A k \in 1 .. Len(ls) :
              Sum(ls, len)[k] = Sum(ls, len)[k - 1] + LineLength(ls[k], len)
<1> DEFINE g == Sum(ls, len)
           S == { n \in 0 .. Len(ls) : g[n] \in Nat }
<1>0. Len(ls) \in Nat
  OBVIOUS
<1>1. Sums(ls, len, Len(ls), g)
  <2>1. \E h : Sums(ls, len, Len(ls), h)
    BY <1>0, SumExists
  <2> QED BY <2>1 DEF Sum
<1> HIDE DEF g
<1>2. g[0] = 0
  BY <1>0, <1>1 DEF Sums
<1>3. ASSUME NEW k \in 1 .. Len(ls) PROVE g[k] = g[k - 1] + LineLength(ls[k], len)
  <2>1. k \in 0 .. Len(ls) /\ k # 0
    OBVIOUS
  <2> QED BY <1>1, <2>1 DEF Sums
<1>4. 0 \in S
  BY <1>0, <1>2
<1>5. ASSUME NEW n \in 0 .. Len(ls) - 1, n \in S PROVE n + 1 \in S
  <2>1. n + 1 \in 1 .. Len(ls) /\ n + 1 - 1 = n /\ g[n] \in Nat
    BY <1>5
  <2>2. ls[n + 1] \in Line
    BY <2>1
  <2>3. g[n + 1] = g[n] + LineLength(ls[n + 1], len)
    BY <1>3, <2>1
  <2>4. LineLength(ls[n + 1], len) \in Nat
    BY <2>2, LineLengthType
  <2>5. g[n + 1] \in Nat
    BY <2>1, <2>3, <2>4
  <2> QED BY <2>1, <2>5
<1>6. 0 .. Len(ls) \subseteq S
  <2> HIDE DEF S
  <2> QED BY <1>0, <1>4, <1>5, UpTo
<1> QED BY <1>2, <1>3, <1>6 DEF g

\* Offset computes the sum up to line k only.
LEMMA OffsetIsSum ==
  ASSUME NEW t, t.lines \in Seq(Line), NEW len \in Lengths, NEW k \in 0 .. Len(t.lines)
  PROVE  Offset(t, k, len) = Sum(t.lines, len)[k]
                               - (IF k > 0 /\ k = Len(t.lines) /\ ~ t.ended THEN 1 ELSE 0)
<1> DEFINE f == CHOOSE h : h = [n \in 0 .. k |-> IF n = 0 THEN 0
                                               ELSE h[n - 1] + LineLength(t.lines[n], len)]
           g == Sum(t.lines, len)
           S == { n \in 0 .. k : f[n] = g[n] }
<1>1. Offset(t, k, len) = IF k > 0 /\ k = Len(t.lines) /\ ~ t.ended THEN f[k] - 1 ELSE f[k]
  BY Zenon DEF Offset
<1>2. Sums(t.lines, len, k, f)
  <2>0. k \in Nat
    OBVIOUS
  <2>1. \E h : Sums(t.lines, len, k, h)
    BY <2>0, SumExists
  <2> QED BY <2>1, Zenon DEF Sums
<1>3. /\ g[0] = 0
      /\ \A n \in 0 .. Len(t.lines) : g[n] \in Nat
      /\ \A n \in 1 .. Len(t.lines) : g[n] = g[n - 1] + LineLength(t.lines[n], len)
  BY SumSteps
<1> HIDE DEF f, g
<1>4. 0 \in S
  BY <1>2, <1>3 DEF Sums
<1>5. ASSUME NEW n \in 0 .. k - 1, n \in S PROVE n + 1 \in S
  <2>1. n + 1 \in 0 .. k /\ n + 1 \in 1 .. Len(t.lines) /\ n + 1 - 1 = n /\ n + 1 # 0
    OBVIOUS
  <2>2. f[n + 1] = f[n] + LineLength(t.lines[n + 1], len)
    BY <1>2, <2>1 DEF Sums
  <2>3. g[n + 1] = g[n] + LineLength(t.lines[n + 1], len)
    BY <1>3, <2>1
  <2> QED BY <1>5, <2>1, <2>2, <2>3
<1>6. 0 .. k \subseteq S
  <2> HIDE DEF S
  <2> QED BY <1>4, <1>5, UpTo
<1>7. f[k] = g[k] /\ g[k] \in Nat
  BY <1>3, <1>6
<1> QED BY <1>1, <1>7 DEF g

LEMMA SameGrowth ==
  ASSUME NEW p \in Nat, NEW q \in Nat, NEW r \in Nat, NEW s \in Nat, NEW x \in Nat, p - q = r - s
  PROVE  (p + x) - q = (r + x) - s
OBVIOUS

LEMMA InPart ==
  ASSUME NEW a \in Nat, NEW d \in Nat, NEW n \in Nat, a + d <= n, NEW k \in Nat, k + 1 <= d
  PROVE  a + (k + 1) \in 1 .. n /\ a + (k + 1) - 1 = a + k /\ a + k \in 0 .. n /\ a \in 0 .. n
OBVIOUS

\* Where two documents have the same lines, their sums run in parallel.
SameLines(ls, a, ms, b, d) ==
  /\ a \in Nat /\ b \in Nat /\ d \in Nat
  /\ a + d <= Len(ls) /\ b + d <= Len(ms)
  /\ \A k \in 1 .. d : ls[a + k] = ms[b + k]

LEMMA SumsParallel ==
  ASSUME NEW ls \in Seq(Line), NEW ms \in Seq(Line), NEW len \in Lengths,
         NEW a, NEW b, NEW d, SameLines(ls, a, ms, b, d), NEW e \in 0 .. d
  PROVE  Sum(ls, len)[a + e] - Sum(ls, len)[a] = Sum(ms, len)[b + e] - Sum(ms, len)[b]
<1> DEFINE f == Sum(ls, len)
           g == Sum(ms, len)
           S == { k \in 0 .. d : f[a + k] - f[a] = g[b + k] - g[b] }
<1>0. /\ Len(ls) \in Nat /\ Len(ms) \in Nat /\ a \in Nat /\ b \in Nat /\ d \in Nat
      /\ a + d <= Len(ls) /\ b + d <= Len(ms)
  BY DEF SameLines
<1>1. /\ \A n \in 0 .. Len(ls) : f[n] \in Nat
      /\ \A n \in 1 .. Len(ls) : f[n] = f[n - 1] + LineLength(ls[n], len)
      /\ \A n \in 0 .. Len(ms) : g[n] \in Nat
      /\ \A n \in 1 .. Len(ms) : g[n] = g[n - 1] + LineLength(ms[n], len)
  BY SumSteps
<1> HIDE DEF f, g
<1>2. 0 \in S
  <2>1. a \in 0 .. Len(ls) /\ b \in 0 .. Len(ms) /\ a + 0 = a /\ b + 0 = b
    BY <1>0
  <2>2. f[a] \in Nat /\ g[b] \in Nat
    BY <1>1, <2>1
  <2>3. 0 \in 0 .. d
    BY <1>0
  <2> QED BY <2>1, <2>2, <2>3
<1>3. ASSUME NEW k \in 0 .. d - 1, k \in S PROVE k + 1 \in S
  <2>0. k \in Nat /\ k + 1 <= d /\ k + 1 \in 1 .. d
    BY <1>0
  <2>a. /\ a + (k + 1) \in 1 .. Len(ls) /\ a + (k + 1) - 1 = a + k /\ a + k \in 0 .. Len(ls)
        /\ a \in 0 .. Len(ls)
    BY <1>0, <2>0, InPart, Zenon
  <2>b. /\ b + (k + 1) \in 1 .. Len(ms) /\ b + (k + 1) - 1 = b + k /\ b + k \in 0 .. Len(ms)
        /\ b \in 0 .. Len(ms)
    BY <1>0, <2>0, InPart, Zenon
  <2>1. /\ a + (k + 1) \in 1 .. Len(ls) /\ a + (k + 1) - 1 = a + k /\ a + k \in 0 .. Len(ls)
        /\ b + (k + 1) \in 1 .. Len(ms) /\ b + (k + 1) - 1 = b + k /\ b + k \in 0 .. Len(ms)
        /\ a \in 0 .. Len(ls) /\ b \in 0 .. Len(ms) /\ k + 1 \in 1 .. d
    BY <2>0, <2>a, <2>b
  <2>2. ls[a + (k + 1)] = ms[b + (k + 1)] /\ ls[a + (k + 1)] \in Line
    <3>1. ls[a + (k + 1)] = ms[b + (k + 1)]
      BY <2>0, Zenon DEF SameLines
    <3>2. ls[a + (k + 1)] \in Line
      BY <2>a, ElementOfSeq, Zenon
    <3> QED BY <3>1, <3>2
  <2>3. LineLength(ls[a + (k + 1)], len) \in Nat
    BY <2>2, LineLengthType
  <2>4. /\ f[a + (k + 1)] = f[a + k] + LineLength(ls[a + (k + 1)], len)
        /\ g[b + (k + 1)] = g[b + k] + LineLength(ls[a + (k + 1)], len)
        /\ f[a + k] \in Nat /\ f[a] \in Nat /\ g[b + k] \in Nat /\ g[b] \in Nat
    BY <1>1, <2>1, <2>2
  <2>5. f[a + k] - f[a] = g[b + k] - g[b]
    BY <1>3
  <2> DEFINE w == LineLength(ls[a + (k + 1)], len)
  <2>6. f[a + (k + 1)] - f[a] = g[b + (k + 1)] - g[b]
    <3> HIDE DEF S, w
    <3>1. w \in Nat /\ f[a + (k + 1)] = f[a + k] + w /\ g[b + (k + 1)] = g[b + k] + w
      BY <2>3, <2>4, Zenon DEF w
    <3> DEFINE p == f[a + k]
               q == f[a]
               r == g[b + k]
               u == g[b]
    <3>2. p \in Nat /\ q \in Nat /\ r \in Nat /\ u \in Nat /\ p - q = r - u
      BY <2>4, <2>5, Zenon
    <3>3. f[a + (k + 1)] = p + w /\ g[b + (k + 1)] = r + w /\ w \in Nat
      BY <3>1, Zenon
    <3> HIDE DEF p, q, r, u
    <3>4. (p + w) - q = (r + w) - u
      BY <3>2, <3>3, SameGrowth
    <3> QED BY <3>3, <3>4, Zenon DEF q, u
  <2> QED BY <2>1, <2>6
<1>4. 0 .. d \subseteq S
  <2> HIDE DEF S
  <2> QED BY <1>0, <1>2, <1>3, UpTo
<1> QED BY <1>4 DEF f, g

(***************************************************************************)
(* Offsets of a text.                                                      *)
(***************************************************************************)
Text == { t \in [lines : Seq(Line), ended : BOOLEAN] : IsText(t) }

\* What a last line without a newline lacks.
Lacking(t, k) == IF k > 0 /\ k = Len(t.lines) /\ ~ t.ended THEN 1 ELSE 0

LEMMA OffsetStarts ==
  ASSUME NEW t \in Text, NEW len \in Lengths
  PROVE  /\ Offset(t, 0, len) = 0
         /\ \A k \in 0 .. Len(t.lines) : Offset(t, k, len) = Sum(t.lines, len)[k] - Lacking(t, k)
<1>1. t.lines \in Seq(Line) /\ Len(t.lines) \in Nat
  BY DEF Text
<1>2. \A k \in 0 .. Len(t.lines) : Offset(t, k, len) = Sum(t.lines, len)[k] - Lacking(t, k)
  BY <1>1, OffsetIsSum DEF Lacking
<1>3. Sum(t.lines, len)[0] = 0 /\ Lacking(t, 0) = 0 /\ 0 \in 0 .. Len(t.lines)
  BY <1>1, SumSteps DEF Lacking
<1> QED BY <1>2, <1>3

\* Every line takes room, also one without a newline.
LEMMA OffsetGrows ==
  ASSUME NEW t \in Text, NEW len \in Lengths, NEW k \in 1 .. Len(t.lines)
  PROVE  /\ Offset(t, k - 1, len) \in Nat /\ Offset(t, k, len) \in Nat
         /\ Offset(t, k - 1, len) < Offset(t, k, len)
         /\ Offset(t, k - 1, len) + Markup(t.lines[k]) <= Offset(t, k, len)
         /\ k < Len(t.lines) \/ t.ended =>
              Offset(t, k, len) = Offset(t, k - 1, len) + LineLength(t.lines[k], len)
<1>0. t.lines \in Seq(Line) /\ Len(t.lines) \in Nat /\ t.ended \in BOOLEAN
  BY DEF Text
<1> DEFINE g == Sum(t.lines, len)
           l == t.lines[k]
<1>1. g[k] = g[k - 1] + LineLength(l, len) /\ g[k - 1] \in Nat
  BY <1>0, SumSteps
<1>2. l \in Line
  BY <1>0
<1>3. Markup(l) \in Nat /\ LineLength(l, len) \in Nat /\ LineLength(l, len) > Markup(l)
  BY <1>2, LineLengthType
<1>4. Offset(t, k, len) = g[k] - Lacking(t, k) /\ Offset(t, k - 1, len) = g[k - 1]
  <2>1. Lacking(t, k - 1) = 0
    BY <1>0 DEF Lacking
  <2> QED BY <1>0, <1>1, <2>1, OffsetStarts
<1>5. Lacking(t, k) = 1 => LineLength(l, len) > 1 /\ ~ (k < Len(t.lines) \/ t.ended)
  <2> SUFFICES ASSUME Lacking(t, k) = 1
               PROVE  LineLength(l, len) > 1 /\ ~ (k < Len(t.lines) \/ t.ended)
    OBVIOUS
  <2>1. k = Len(t.lines) /\ ~ t.ended
    BY DEF Lacking
  <2>2. LineLength(l, LeafUnits) > 1
    BY <2>1 DEF Text, IsText
  <2>3. LeafUnits[l.leaf] <= LeafBytes[l.leaf] /\ l.leaf \in Leaves
        /\ LeafUnits[l.leaf] \in Nat /\ LeafBytes[l.leaf] \in Nat
    BY <1>2, IncrementalAssumption DEF Line
  <2>4. LineLength(l, LeafBytes) > 1
    <3>1. Markup(l) \in Nat
      BY <1>3
    <3> HIDE DEF l
    <3> QED BY <2>2, <2>3, <3>1 DEF LineLength
  <2> QED BY <1>0, <2>1, <2>2, <2>4 DEF Lengths
<1>6. Lacking(t, k) \in {0, 1}
  BY DEF Lacking
<1>7. k < Len(t.lines) \/ t.ended => Lacking(t, k) = 0
  BY <1>5, <1>6
<1> HIDE DEF g, l
<1>8. /\ Offset(t, k - 1, len) \in Nat /\ Offset(t, k, len) \in Nat
      /\ Offset(t, k - 1, len) < Offset(t, k, len)
      /\ Offset(t, k - 1, len) + Markup(l) <= Offset(t, k, len)
      /\ k < Len(t.lines) \/ t.ended => Offset(t, k, len) = Offset(t, k - 1, len) + LineLength(l, len)
  BY <1>1, <1>3, <1>4, <1>5, <1>6, <1>7
<1> QED BY <1>8 DEF l

LEMMA OffsetType ==
  ASSUME NEW t \in Text, NEW len \in Lengths, NEW k \in 0 .. Len(t.lines)
  PROVE  Offset(t, k, len) \in Nat
<1>1. Len(t.lines) \in Nat
  BY DEF Text
<1>2. CASE k = 0
  BY <1>2, OffsetStarts
<1>3. CASE k # 0
  <2>1. k \in 1 .. Len(t.lines)
    BY <1>1, <1>3
  <2> QED BY <2>1, OffsetGrows
<1> QED BY <1>2, <1>3

LEMMA OffsetIncreases ==
  ASSUME NEW t \in Text, NEW len \in Lengths,
         NEW j \in 0 .. Len(t.lines), NEW k \in 0 .. Len(t.lines), j < k
  PROVE  Offset(t, j, len) < Offset(t, k, len)
<1> DEFINE b == Len(t.lines) - j - 1
           S == { d \in 0 .. b : Offset(t, j, len) < Offset(t, j + d + 1, len) }
<1>0. Len(t.lines) \in Nat /\ b \in Nat
  BY DEF Text
<1>1. 0 \in S
  <2>1. j + 1 \in 1 .. Len(t.lines) /\ j + 1 - 1 = j /\ j + 0 + 1 = j + 1
    BY <1>0
  <2>2. Offset(t, j, len) < Offset(t, j + 1, len)
    BY <2>1, OffsetGrows
  <2> QED BY <1>0, <2>1, <2>2
<1>2. ASSUME NEW d \in 0 .. b - 1, d \in S PROVE d + 1 \in S
  <2>1. j + (d + 1) + 1 \in 1 .. Len(t.lines) /\ j + (d + 1) + 1 - 1 = j + d + 1
    BY <1>0
  <2>2. /\ Offset(t, j + d + 1, len) < Offset(t, j + (d + 1) + 1, len)
        /\ Offset(t, j + d + 1, len) \in Nat /\ Offset(t, j + (d + 1) + 1, len) \in Nat
    BY <2>1, OffsetGrows
  <2>3. Offset(t, j, len) < Offset(t, j + d + 1, len) /\ Offset(t, j, len) \in Nat
    BY <1>2, OffsetType
  <2>4. Offset(t, j, len) < Offset(t, j + (d + 1) + 1, len)
    BY <2>2, <2>3
  <2>5. d + 1 \in 0 .. b
    BY <1>0
  <2> QED BY <2>4, <2>5
<1>3. 0 .. b \subseteq S
  <2> HIDE DEF S, b
  <2> QED BY <1>0, <1>1, <1>2, UpTo
<1>4. k - j - 1 \in 0 .. b /\ j + (k - j - 1) + 1 = k
  BY <1>0
<1>5. k - j - 1 \in S
  BY <1>3, <1>4
<1> QED BY <1>4, <1>5

(***************************************************************************)
(* Two texts that have d lines in common, from line a and from line b on.  *)
(***************************************************************************)
SamePart(t, a, u, b, d) ==
  /\ SameLines(t.lines, a, u.lines, b, d)
  /\ \A k \in 0 .. d : Lacking(t, a + k) = Lacking(u, b + k)

LEMMA OffsetsParallel ==
  ASSUME NEW t \in Text, NEW u \in Text, NEW a, NEW b, NEW d, SamePart(t, a, u, b, d),
         NEW len \in Lengths, NEW k \in 0 .. d
  PROVE  Offset(t, a + k, len) - Offset(t, a, len) = Offset(u, b + k, len) - Offset(u, b, len)
<1> DEFINE f == Sum(t.lines, len)
           g == Sum(u.lines, len)
<1>1. /\ a \in Nat /\ b \in Nat /\ d \in Nat /\ a + d <= Len(t.lines) /\ b + d <= Len(u.lines)
      /\ SameLines(t.lines, a, u.lines, b, d)
      /\ \A n \in 0 .. d : Lacking(t, a + n) = Lacking(u, b + n)
  BY DEF SamePart, SameLines
<1>2. /\ t.lines \in Seq(Line) /\ u.lines \in Seq(Line)
      /\ Len(t.lines) \in Nat /\ Len(u.lines) \in Nat
  BY DEF Text
<1>3. f[a + k] - f[a] = g[b + k] - g[b]
  <2>1. SameLines(t.lines, a, u.lines, b, d) /\ t.lines \in Seq(Line) /\ u.lines \in Seq(Line)
    BY <1>1, <1>2
  <2> QED BY <2>1, SumsParallel
<1>a. /\ a \in Nat /\ b \in Nat /\ d \in Nat /\ a + d <= Len(t.lines) /\ b + d <= Len(u.lines)
      /\ k \in Nat /\ k <= d
  <2>1. d \in Nat
    BY <1>1
  <2>2. k \in Nat /\ k <= d
    BY <2>1
  <2> QED BY <1>1, <2>2, Zenon
<1>4. /\ a + k \in 0 .. Len(t.lines) /\ a \in 0 .. Len(t.lines)
      /\ b + k \in 0 .. Len(u.lines) /\ b \in 0 .. Len(u.lines)
      /\ a + 0 = a /\ b + 0 = b /\ 0 \in 0 .. d
  BY <1>2, <1>a
<1>5. /\ f[a + k] \in Nat /\ f[a] \in Nat /\ g[b + k] \in Nat /\ g[b] \in Nat
  BY <1>2, <1>4, SumSteps
<1>6. /\ Offset(t, a + k, len) = f[a + k] - Lacking(t, a + k)
      /\ Offset(t, a, len) = f[a] - Lacking(t, a)
      /\ Offset(u, b + k, len) = g[b + k] - Lacking(u, b + k)
      /\ Offset(u, b, len) = g[b] - Lacking(u, b)
  BY <1>4, OffsetStarts
<1>7. Lacking(t, a + k) = Lacking(u, b + k) /\ Lacking(t, a) = Lacking(u, b)
  BY <1>1, <1>4
<1>8. Lacking(u, b + k) \in Nat /\ Lacking(u, b) \in Nat
  BY DEF Lacking
<1> DEFINE fk == f[a + k]  fa == f[a]  gk == g[b + k]  gb == g[b]
           x == Lacking(u, b + k)  y == Lacking(u, b)
<1>9. /\ fk \in Nat /\ fa \in Nat /\ gk \in Nat /\ gb \in Nat /\ x \in Nat /\ y \in Nat
      /\ fk - fa = gk - gb
  BY <1>3, <1>5, <1>8, Zenon
<1>10. /\ Offset(t, a + k, len) = fk - x /\ Offset(t, a, len) = fa - y
       /\ Offset(u, b + k, len) = gk - x /\ Offset(u, b, len) = gb - y
  BY <1>6, <1>7, Zenon
<1> HIDE DEF fk, fa, gk, gb, x, y
<1>11. (fk - x) - (fa - y) = (gk - x) - (gb - y)
  BY <1>9
<1> QED BY <1>10, <1>11, Zenon

LEMMA Extract ==
  ASSUME NEW A, NEW s \in Seq(A), NEW p \in Nat, NEW q \in Nat, p <= q, q <= Len(s)
  PROVE  /\ SubSeq(s, p + 1, q) \in Seq(A) /\ Len(SubSeq(s, p + 1, q)) = q - p
         /\ \A n \in 1 .. q - p : SubSeq(s, p + 1, q)[n] = s[p + n]
<1> DEFINE x == SubSeq(s, p + 1, q)
<1>0. Len(s) \in Nat
  OBVIOUS
<1>1. \A n \in p + 1 .. q : s[n] \in A
  <2> TAKE n \in p + 1 .. q
  <2>1. n \in 1 .. Len(s)
    BY <1>0
  <2> QED BY <2>1, ElementOfSeq
<1>2. /\ x \in Seq(A) /\ Len(x) = IF p + 1 <= q THEN q - (p + 1) + 1 ELSE 0
      /\ \A n \in 1 .. q - (p + 1) + 1 : x[n] = s[p + 1 + n - 1]
  BY <1>1, SubSeqProperties
<1>3. q - (p + 1) + 1 = q - p /\ (IF p + 1 <= q THEN q - (p + 1) + 1 ELSE 0) = q - p
  OBVIOUS
<1>4. \A n \in 1 .. q - p : p + 1 + n - 1 = p + n
  OBVIOUS
<1> HIDE DEF x
<1>5. x \in Seq(A) /\ Len(x) = q - p /\ \A n \in 1 .. q - p : x[n] = s[p + n]
  BY <1>2, <1>3, <1>4
<1> QED BY <1>5 DEF x

\* p .. q of the one part is where p2 .. q2 is in the other.
SameSpan(a, b, d, p, q, p2, q2) ==
  /\ p \in Nat /\ q \in Nat /\ p2 \in Nat /\ q2 \in Nat
  /\ a <= p /\ p <= q /\ q <= a + d
  /\ p2 - b = p - a /\ q2 - b = q - a

Body(t, p, q) == SubSeq(t.lines, p + 1, q)

LEMMA SpanFits ==
  ASSUME NEW a \in Nat, NEW b \in Nat, NEW d \in Nat, NEW m \in Nat, NEW n \in Nat,
         NEW p, NEW q, NEW p2, NEW q2, SameSpan(a, b, d, p, q, p2, q2), a + d <= m, b + d <= n
  PROVE  q <= m /\ p2 <= q2 /\ q2 <= n /\ q2 - p2 = q - p
BY DEF SameSpan

\* The lines of a block in the common part are the same.
LEMMA SameBody ==
  ASSUME NEW t \in Text, NEW u \in Text, NEW a, NEW b, NEW d, SamePart(t, a, u, b, d),
         NEW p, NEW q, NEW p2, NEW q2, SameSpan(a, b, d, p, q, p2, q2)
  PROVE  Body(t, p, q) = Body(u, p2, q2)
<1> DEFINE x == SubSeq(t.lines, p + 1, q)
           y == SubSeq(u.lines, p2 + 1, q2)
<1>1. /\ a \in Nat /\ b \in Nat /\ d \in Nat /\ a + d <= Len(t.lines) /\ b + d <= Len(u.lines)
      /\ \A n \in 1 .. d : t.lines[a + n] = u.lines[b + n]
  BY DEF SamePart, SameLines
<1>a. /\ a \in Nat /\ b \in Nat /\ d \in Nat /\ a + d <= Len(t.lines) /\ b + d <= Len(u.lines)
  BY <1>1
<1>2. /\ t.lines \in Seq(Line) /\ u.lines \in Seq(Line)
      /\ Len(t.lines) \in Nat /\ Len(u.lines) \in Nat
  BY DEF Text
<1>b. /\ p \in Nat /\ q \in Nat /\ p2 \in Nat /\ q2 \in Nat
      /\ a <= p /\ p <= q /\ q <= a + d
      /\ p2 - b = p - a /\ q2 - b = q - a
  BY DEF SameSpan
<1>3. q <= Len(t.lines) /\ p2 <= q2 /\ q2 <= Len(u.lines) /\ q2 - p2 = q - p
  <2>1. Len(t.lines) \in Nat /\ Len(u.lines) \in Nat
    BY <1>2
  <2> QED BY <1>a, <2>1, SpanFits
<1>6. x \in Seq(Line) /\ Len(x) = q - p /\ \A n \in 1 .. q - p : x[n] = t.lines[p + n]
  BY <1>2, <1>3, <1>b, Extract
<1>7. y \in Seq(Line) /\ Len(y) = q2 - p2 /\ \A n \in 1 .. q2 - p2 : y[n] = u.lines[p2 + n]
  BY <1>2, <1>3, <1>b, Extract
<1>8. ASSUME NEW n \in 1 .. q - p PROVE t.lines[p + n] = u.lines[p2 + n]
  <2>1. p + n - a \in 1 .. d /\ a + (p + n - a) = p + n /\ b + (p + n - a) = p2 + n
    BY <1>a, <1>b
  <2> QED BY <1>1, <2>1, Zenon
<1> HIDE DEF x, y
<1>9. Len(x) = Len(y)
  BY <1>3, <1>6, <1>7
<1>10. ASSUME NEW n \in 1 .. Len(x) PROVE x[n] = y[n]
  <2>1. n \in 1 .. q - p /\ n \in 1 .. q2 - p2
    BY <1>6, <1>7, <1>9, Zenon
  <2> QED BY <1>6, <1>7, <1>8, <2>1, Zenon
<1>11. x \in Seq(Line) /\ y \in Seq(Line)
  BY <1>6, <1>7
<1>12. x = y
  BY <1>9, <1>10, <1>11, SeqEqual, Zenon
<1> QED BY <1>12 DEF x, y, Body

LEMMA ShiftFields ==
  ASSUME NEW kind, NEW p, NEW q, NEW x, NEW y, NEW z, NEW w, NEW body,
         NEW bytes, NEW units, NEW n
  PROVE  Shift([kind |-> kind, first |-> p, last |-> q, byteStart |-> x, byteEnd |-> y,
                unitStart |-> z, unitEnd |-> w, body |-> body], bytes, units, n)
           = [kind |-> kind, first |-> p + n, last |-> q + n, byteStart |-> x + bytes,
              byteEnd |-> y + bytes, unitStart |-> z + units, unitEnd |-> w + units, body |-> body]
<1> DEFINE r == [kind |-> kind, first |-> p, last |-> q, byteStart |-> x, byteEnd |-> y,
                 unitStart |-> z, unitEnd |-> w, body |-> body]
           r1 == [r EXCEPT !.first = @ + n]
           r2 == [r1 EXCEPT !.last = @ + n]
           r3 == [r2 EXCEPT !.byteStart = @ + bytes]
           r4 == [r3 EXCEPT !.byteEnd = @ + bytes]
           r5 == [r4 EXCEPT !.unitStart = @ + units]
           r6 == [r5 EXCEPT !.unitEnd = @ + units]
<1>1. r1 = [kind |-> kind, first |-> p + n, last |-> q, byteStart |-> x, byteEnd |-> y,
            unitStart |-> z, unitEnd |-> w, body |-> body]
  OBVIOUS
<1> HIDE DEF r1
<1>2. r2 = [kind |-> kind, first |-> p + n, last |-> q + n, byteStart |-> x, byteEnd |-> y,
            unitStart |-> z, unitEnd |-> w, body |-> body]
  BY <1>1
<1> HIDE DEF r2
<1>3. r3 = [kind |-> kind, first |-> p + n, last |-> q + n, byteStart |-> x + bytes, byteEnd |-> y,
            unitStart |-> z, unitEnd |-> w, body |-> body]
  BY <1>2
<1> HIDE DEF r3
<1>4. r4 = [kind |-> kind, first |-> p + n, last |-> q + n, byteStart |-> x + bytes,
            byteEnd |-> y + bytes, unitStart |-> z, unitEnd |-> w, body |-> body]
  BY <1>3
<1> HIDE DEF r4
<1>5. r5 = [kind |-> kind, first |-> p + n, last |-> q + n, byteStart |-> x + bytes,
            byteEnd |-> y + bytes, unitStart |-> z + units, unitEnd |-> w, body |-> body]
  BY <1>4
<1> HIDE DEF r5
<1>6. r6 = [kind |-> kind, first |-> p + n, last |-> q + n, byteStart |-> x + bytes,
            byteEnd |-> y + bytes, unitStart |-> z + units, unitEnd |-> w + units, body |-> body]
  BY <1>5
<1>7. Shift(r, bytes, units, n) = r6
  BY Zenon DEF Shift, r1, r2, r3, r4, r5
<1> QED BY <1>6, <1>7

Within(c, a, d) == a <= c.first /\ c.first <= c.last /\ c.last <= a + d

Displaced(c, n) == [kind |-> c.kind, first |-> c.first + n, last |-> c.last + n]

\* Moving a block by what lies between the parts makes it a block of the other.
LEMMA MovedNode ==
  ASSUME NEW t \in Text, NEW u \in Text, NEW a, NEW b, NEW d, SamePart(t, a, u, b, d),
         NEW c \in Block, Within(c, a, d)
  PROVE  Shift(Node(t, c), ByteAt(u, b) - ByteAt(t, a), UnitAt(u, b) - UnitAt(t, a), b - a)
           = Node(u, Displaced(c, b - a))
<1> DEFINE p == c.first
           q == c.last
           e == b - a
<1>1. /\ a \in Nat /\ b \in Nat /\ d \in Nat /\ p \in Nat /\ q \in Nat
      /\ a + d <= Len(t.lines) /\ b + d <= Len(u.lines)
      /\ a <= p /\ p <= q /\ q <= a + d
  BY DEF SamePart, SameLines, Block, Within
<1>2. Len(t.lines) \in Nat /\ Len(u.lines) \in Nat
  BY DEF Text
<1>3. ASSUME NEW len \in Lengths, NEW n \in Nat, a <= n, n <= a + d
      PROVE  Offset(t, n, len) + (Offset(u, b, len) - Offset(t, a, len)) = Offset(u, n + e, len)
  <2>1. n - a \in 0 .. d /\ a + (n - a) = n /\ b + (n - a) = n + e
    BY <1>1, <1>3
  <2>2. Offset(t, n, len) - Offset(t, a, len) = Offset(u, n + e, len) - Offset(u, b, len)
    BY <2>1, OffsetsParallel
  <2>3. n \in 0 .. Len(t.lines) /\ n + e \in 0 .. Len(u.lines) /\ a \in 0 .. Len(t.lines) /\ b \in 0 .. Len(u.lines)
    <3>1. n \in 0 .. Len(t.lines) /\ a \in 0 .. Len(t.lines)
      BY <1>1, <1>2, <1>3
    <3>2. n + (b - a) \in 0 .. Len(u.lines) /\ b \in 0 .. Len(u.lines)
      <4> HIDE DEF p, q
      <4> QED BY <1>1, <1>2, <1>3
    <3> QED BY <3>1, <3>2
  <2>4. /\ Offset(t, n, len) \in Nat /\ Offset(t, a, len) \in Nat
        /\ Offset(u, n + e, len) \in Nat /\ Offset(u, b, len) \in Nat
    BY <2>3, OffsetType, Zenon
  <2> DEFINE w == Offset(t, n, len)  x == Offset(t, a, len)
             y == Offset(u, n + e, len)  z == Offset(u, b, len)
  <2>5. w \in Nat /\ x \in Nat /\ y \in Nat /\ z \in Nat /\ w - x = y - z
    BY <2>2, <2>4, Zenon
  <2> HIDE DEF w, x, y, z
  <2>6. w + (z - x) = y
    BY <2>5
  <2> QED BY <2>6, Zenon DEF w, x, y, z
<1>4. /\ LeafBytes \in Lengths /\ LeafUnits \in Lengths
      /\ p <= a + d /\ a <= q
  BY <1>1 DEF Lengths
<1>5. /\ ByteAt(t, p) + (ByteAt(u, b) - ByteAt(t, a)) = ByteAt(u, p + e)
      /\ ByteAt(t, q) + (ByteAt(u, b) - ByteAt(t, a)) = ByteAt(u, q + e)
      /\ UnitAt(t, p) + (UnitAt(u, b) - UnitAt(t, a)) = UnitAt(u, p + e)
      /\ UnitAt(t, q) + (UnitAt(u, b) - UnitAt(t, a)) = UnitAt(u, q + e)
  BY <1>1, <1>3, <1>4 DEF ByteAt, UnitAt
<1>6. SubSeq(t.lines, p + 1, q) = SubSeq(u.lines, p + e + 1, q + e)
  <2>1. a <= p /\ p <= q /\ q <= a + d /\ p \in Nat /\ q \in Nat
    BY <1>1
  <2>2. p + e \in Nat /\ q + e \in Nat /\ (p + e) - b = p - a /\ (q + e) - b = q - a
    <3> HIDE DEF p, q
    <3> QED BY <1>1, <2>1
  <2> DEFINE p2 == p + e
             q2 == q + e
  <2>3. p2 \in Nat /\ q2 \in Nat /\ p2 - b = p - a /\ q2 - b = q - a
    BY <2>2
  <2> HIDE DEF p, q, e, p2, q2
  <2>a. SameSpan(a, b, d, p, q, p2, q2)
    BY <2>1, <2>3, Zenon DEF SameSpan
  <2>4. Body(t, p, q) = Body(u, p2, q2)
    BY <2>a, SameBody
  <2> QED BY <2>4, Zenon DEF p2, q2, Body
<1> HIDE DEF p, q, e
<1>7. Shift(Node(t, c), ByteAt(u, b) - ByteAt(t, a), UnitAt(u, b) - UnitAt(t, a), e)
        = [kind |-> c.kind, first |-> p + e, last |-> q + e,
           byteStart |-> ByteAt(t, p) + (ByteAt(u, b) - ByteAt(t, a)),
           byteEnd   |-> ByteAt(t, q) + (ByteAt(u, b) - ByteAt(t, a)),
           unitStart |-> UnitAt(t, p) + (UnitAt(u, b) - UnitAt(t, a)),
           unitEnd   |-> UnitAt(t, q) + (UnitAt(u, b) - UnitAt(t, a)),
           body |-> SubSeq(t.lines, p + 1, q)]
  <2> DEFINE x == ByteAt(t, p)  y == ByteAt(t, q)  z == UnitAt(t, p)  w == UnitAt(t, q)
             body == SubSeq(t.lines, p + 1, q)
             bytes == ByteAt(u, b) - ByteAt(t, a)
             units == UnitAt(u, b) - UnitAt(t, a)
  <2>1. Node(t, c) = [kind |-> c.kind, first |-> p, last |-> q, byteStart |-> x, byteEnd |-> y,
                      unitStart |-> z, unitEnd |-> w, body |-> body]
    BY Zenon DEF Node, p, q
  <2> HIDE DEF x, y, z, w, body, bytes, units
  <2>2. Shift(Node(t, c), bytes, units, e)
          = [kind |-> c.kind, first |-> p + e, last |-> q + e, byteStart |-> x + bytes,
             byteEnd |-> y + bytes, unitStart |-> z + units, unitEnd |-> w + units, body |-> body]
    BY <2>1, ShiftFields
  <2> QED BY <2>2, Zenon DEF x, y, z, w, body, bytes, units
<1>8. Node(u, [kind |-> c.kind, first |-> p + e, last |-> q + e])
        = [kind |-> c.kind, first |-> p + e, last |-> q + e,
           byteStart |-> ByteAt(u, p + e), byteEnd |-> ByteAt(u, q + e),
           unitStart |-> UnitAt(u, p + e), unitEnd |-> UnitAt(u, q + e),
           body |-> SubSeq(u.lines, p + e + 1, q + e)]
  BY DEF Node
<1> QED BY <1>5, <1>6, <1>7, <1>8, Zenon DEF p, q, e, Displaced

(***************************************************************************)
(* Blocks of a text that lie end to end.                                   *)
(***************************************************************************)
Placed(t) == { Node(t, c) : c \in Block }

Laid(t, bs, start, end) == bs \in Seq(Placed(t)) /\ Chain(bs, start, end)

LEMMA PlacedFields ==
  ASSUME NEW t, NEW x \in Placed(t)
  PROVE  /\ x.first \in Nat /\ x.last \in Nat
         /\ [kind |-> x.kind, first |-> x.first, last |-> x.last] \in Block
         /\ x = Node(t, [kind |-> x.kind, first |-> x.first, last |-> x.last])
         /\ x.byteStart = ByteAt(t, x.first) /\ x.byteEnd = ByteAt(t, x.last)
         /\ x.unitStart = UnitAt(t, x.first) /\ x.unitEnd = UnitAt(t, x.last)
<1>1. PICK c \in Block : x = Node(t, c)
  BY DEF Placed
<1>2. /\ c.kind \in Kinds /\ c.first \in Nat /\ c.last \in Nat
      /\ c = [kind |-> c.kind, first |-> c.first, last |-> c.last]
  BY DEF Block
<1>3. x.kind = c.kind /\ x.first = c.first /\ x.last = c.last
  BY <1>1, Zenon DEF Node
<1>4. [kind |-> x.kind, first |-> x.first, last |-> x.last] = c
  BY <1>2, <1>3, Zenon
<1>5. /\ x.byteStart = ByteAt(t, x.first) /\ x.byteEnd = ByteAt(t, x.last)
      /\ x.unitStart = UnitAt(t, x.first) /\ x.unitEnd = UnitAt(t, x.last)
  BY <1>1, <1>3, Zenon DEF Node
<1> QED BY <1>1, <1>2, <1>3, <1>4, <1>5, Zenon

\* A full parse covers its text.
LEMMA FullParseLaid ==
  ASSUME NEW t \in Text
  PROVE  Laid(t, FullParse(t), 0, Len(t.lines))
<1> DEFINE bs == ParseBlocks(t.lines, "Editable")
           ns == FullParse(t)
<1>1. t.lines \in Seq(Line)
  BY DEF Text
<1>2. bs \in Seq(Block) /\ Chain(bs, 0, Len(t.lines))
  BY <1>1, ParseCuts
<1> HIDE DEF bs
<1>3. ns = [n \in DOMAIN bs |-> Node(t, bs[n])] /\ DOMAIN bs = 1 .. Len(bs) /\ Len(bs) \in Nat
  BY <1>2 DEF FullParse, Nodes, bs
<1>4. \A n \in 1 .. Len(bs) : Node(t, bs[n]) \in Placed(t)
  BY <1>2 DEF Placed
<1> HIDE DEF ns
<1>5. ns \in Seq(Placed(t)) /\ Len(ns) = Len(bs) /\ DOMAIN ns = 1 .. Len(bs)
  BY <1>3, <1>4
<1>6. \A n \in 1 .. Len(bs) : ns[n].first = bs[n].first /\ ns[n].last = bs[n].last
  <2> TAKE n \in 1 .. Len(bs)
  <2>1. ns[n] = Node(t, bs[n])
    BY <1>3
  <2> QED BY <2>1 DEF Node
<1>7. ns = <<>> <=> bs = <<>>
  <2>1. bs = <<>> <=> Len(bs) = 0
    BY <1>2
  <2>2. ns = <<>> <=> Len(ns) = 0
    BY <1>5
  <2> QED BY <1>5, <2>1, <2>2
<1>8. Chain(ns, 0, Len(t.lines))
  <2>1. ASSUME NEW k \in 1 .. Len(ns)
        PROVE  /\ ns[k].first \in Nat /\ ns[k].last \in Nat
               /\ ns[k].first < ns[k].last
               /\ ns[k].first = (IF k = 1 THEN 0 ELSE ns[k - 1].last)
    <3>1. k \in 1 .. Len(bs) /\ (k # 1 => k - 1 \in 1 .. Len(bs))
      BY <1>3, <1>5
    <3>2. /\ bs[k].first \in Nat /\ bs[k].last \in Nat
          /\ bs[k].first < bs[k].last
          /\ bs[k].first = (IF k = 1 THEN 0 ELSE bs[k - 1].last)
      BY <1>2, <3>1 DEF Chain
    <3>3. k # 1 => ns[k - 1].last = bs[k - 1].last
      BY <1>6, <3>1
    <3> QED BY <1>6, <3>1, <3>2, <3>3
  <2>2. ns # <<>> => ns[Len(ns)].last = Len(t.lines)
    <3> SUFFICES ASSUME ns # <<>> PROVE ns[Len(ns)].last = Len(t.lines)
      OBVIOUS
    <3>1. bs # <<>>
      BY <1>7
    <3>2. Len(bs) \in 1 .. Len(bs) /\ bs[Len(bs)].last = Len(t.lines)
      BY <1>2, <3>1 DEF Chain
    <3> QED BY <1>5, <1>6, <3>2
  <2>3. ns = <<>> <=> 0 = Len(t.lines)
    BY <1>2, <1>7 DEF Chain
  <2> QED BY <2>1, <2>2, <2>3 DEF Chain
<1> QED BY <1>5, <1>8 DEF Laid, ns

\* Where a chain is after p blocks.
Cut(bs, start, p) == IF p = 0 THEN start ELSE bs[p].last

LEMMA CutType ==
  ASSUME NEW A, NEW bs \in Seq(A), NEW start \in Nat, NEW end \in Nat, Chain(bs, start, end),
         NEW p \in 0 .. Len(bs)
  PROVE  /\ Cut(bs, start, p) \in Nat /\ start <= Cut(bs, start, p) /\ Cut(bs, start, p) <= end
         /\ p < Len(bs) => Cut(bs, start, p) = bs[p + 1].first /\ Cut(bs, start, p) < end
         /\ p = Len(bs) => Cut(bs, start, p) = end
<1>0. Len(bs) \in Nat /\ (bs = <<>> <=> Len(bs) = 0)
  OBVIOUS
<1>1. CASE p = 0
  <2>1. CASE Len(bs) = 0
    BY <1>0, <1>1, <2>1 DEF Cut, Chain
  <2>2. CASE Len(bs) # 0
    <3>1. 1 \in 1 .. Len(bs)
      BY <1>0, <2>2
    <3>2. start <= bs[1].first /\ bs[1].first < bs[1].last /\ bs[1].last <= end
          /\ bs[1].first \in Nat /\ bs[1].last \in Nat
      BY <3>1, ChainBounds
    <3>3. bs[1].first = start
      BY <3>1 DEF Chain
    <3> QED BY <1>0, <1>1, <2>2, <3>2, <3>3 DEF Cut
  <2> QED BY <2>1, <2>2
<1>2. CASE p # 0
  <2>1. p \in 1 .. Len(bs) /\ Cut(bs, start, p) = bs[p].last
    BY <1>0, <1>2 DEF Cut
  <2>2. /\ bs[p].first \in Nat /\ bs[p].last \in Nat
        /\ start <= bs[p].first /\ bs[p].first < bs[p].last /\ bs[p].last <= end
        /\ p < Len(bs) => bs[p].last = bs[p + 1].first /\ bs[p].last < end
    BY <2>1, ChainBounds
  <2>3. p = Len(bs) => bs[p].last = end
    BY <1>0, <1>2 DEF Chain
  <2> QED BY <2>1, <2>2, <2>3
<1> QED BY <1>1, <1>2

LEMMA ChainPart ==
  ASSUME NEW A, NEW bs \in Seq(A), NEW start \in Nat, NEW end \in Nat, Chain(bs, start, end),
         NEW p \in 0 .. Len(bs), NEW q \in p .. Len(bs)
  PROVE  /\ SubSeq(bs, p + 1, q) \in Seq(A)
         /\ Chain(SubSeq(bs, p + 1, q), Cut(bs, start, p), Cut(bs, start, q))
<1> DEFINE x == SubSeq(bs, p + 1, q)
<1>0. Len(bs) \in Nat /\ p \in Nat /\ q \in Nat /\ p <= q /\ q <= Len(bs) /\ q \in 0 .. Len(bs)
  OBVIOUS
<1>1. x \in Seq(A) /\ Len(x) = q - p /\ \A n \in 1 .. q - p : x[n] = bs[p + n]
  BY <1>0, Extract
<1> HIDE DEF x
<1>2. \A k \in 1 .. Len(bs) : /\ bs[k].first \in Nat /\ bs[k].last \in Nat
                              /\ bs[k].first < bs[k].last
                              /\ bs[k].first = (IF k = 1 THEN start ELSE bs[k - 1].last)
  BY DEF Chain
<1>3. ASSUME NEW k \in 1 .. Len(x)
      PROVE  /\ x[k].first \in Nat /\ x[k].last \in Nat
             /\ x[k].first < x[k].last
             /\ x[k].first = (IF k = 1 THEN Cut(bs, start, p) ELSE x[k - 1].last)
  <2>1. /\ k \in 1 .. q - p /\ p + k \in 1 .. Len(bs) /\ p + k - 1 = p + (k - 1)
        /\ (k = 1 => p + k - 1 = p) /\ (k # 1 => p + k # 1 /\ k - 1 \in 1 .. q - p)
        /\ (p + k = 1 <=> p = 0 /\ k = 1)
    BY <1>0, <1>1
  <2>2. x[k] = bs[p + k] /\ (k # 1 => x[k - 1] = bs[p + k - 1])
    BY <1>1, <2>1
  <2>3. /\ bs[p + k].first \in Nat /\ bs[p + k].last \in Nat
        /\ bs[p + k].first < bs[p + k].last
        /\ bs[p + k].first = (IF p + k = 1 THEN start ELSE bs[p + k - 1].last)
    <3> DEFINE m == p + k
    <3>1. m \in 1 .. Len(bs)
      BY <2>1
    <3> HIDE DEF m
    <3>2. /\ bs[m].first \in Nat /\ bs[m].last \in Nat
          /\ bs[m].first < bs[m].last
          /\ bs[m].first = (IF m = 1 THEN start ELSE bs[m - 1].last)
      BY <1>2, <3>1
    <3> QED BY <3>2 DEF m
  <2>4. k = 1 => bs[p + k].first = Cut(bs, start, p)
    BY <2>1, <2>3 DEF Cut
  <2> QED BY <2>1, <2>2, <2>3, <2>4
<1>4. CASE p = q
  <2>1. Len(x) = 0 /\ x = <<>>
    BY <1>0, <1>1, <1>4
  <2> QED BY <1>1, <1>3, <1>4, <2>1 DEF Chain, x
<1>5. CASE p < q
  <2>1. Len(x) \in Nat /\ Len(x) # 0 /\ x # <<>> /\ q - p \in 1 .. q - p /\ p + (q - p) = q /\ q # 0
    BY <1>0, <1>1, <1>5
  <2>2. x[Len(x)] = bs[q]
    BY <1>1, <2>1
  <2>3. x[Len(x)].last = Cut(bs, start, q)
    BY <2>1, <2>2 DEF Cut
  <2>4. Cut(bs, start, p) # Cut(bs, start, q)
    <3>1. p + 1 \in 1 .. Len(bs) /\ q \in 1 .. Len(bs) /\ p < Len(bs)
      BY <1>0, <1>5
    <3>2. Cut(bs, start, p) = bs[p + 1].first
      BY <3>1, CutType
    <3>3. bs[p + 1].first < bs[p + 1].last /\ bs[p + 1].first \in Nat /\ bs[p + 1].last \in Nat
          /\ bs[q].first < bs[q].last /\ bs[q].first \in Nat /\ bs[q].last \in Nat
      BY <1>2, <3>1
    <3>4. p + 1 = q \/ bs[p + 1].last <= bs[q].first
      <4>1. p + 1 = q \/ p + 1 < q
        BY <1>0, <1>5
      <4> QED BY <3>1, <4>1, ChainOrdered
    <3>5. Cut(bs, start, q) = bs[q].last
      BY <2>1 DEF Cut
    <3> QED BY <3>2, <3>3, <3>4, <3>5
  <2>5. Chain(x, Cut(bs, start, p), Cut(bs, start, q))
    BY <1>3, <2>1, <2>3, <2>4 DEF Chain
  <2> QED BY <1>1, <2>5 DEF x
<1> QED BY <1>0, <1>4, <1>5

(***************************************************************************)
(* Calm lines.  Where the blocks of a calm text end is decided by each     *)
(* line and the line before it, and what they are by their first line and  *)
(* their last: no rule looks further.                                      *)
(***************************************************************************)
Prose(l) ==
  ~ \/ IsBlank(l) \/ IsImageMarker(l) \/ IsHorizontalRule(l) \/ IsHeading(l)
    \/ OpensQuote(l) \/ HasMarker(l) \/ IsFootnote(l)

\* Line l goes on with the block of the line p before it.
Joined(p, l) ==
  \/ OpensQuote(p) /\ OpensQuote(l)
  \/ Prose(p) /\ (Prose(l) \/ IsSetextUnderline(l))

KindOf(l, last) ==
  IF IsBlank(l) THEN "Empty"
  ELSE IF IsImageMarker(l) THEN "ImageMarker"
  ELSE IF IsHorizontalRule(l) THEN "HorizontalRule"
  ELSE IF IsHeading(l) THEN "Heading"
  ELSE IF OpensQuote(l) THEN IF Bare(Content(l)) /\ Content(l).leaf = "callout"
                             THEN "Callout" ELSE "Blockquote"
  ELSE IF HasMarker(l) /\ l.mark = "check" THEN "Checkbox"
  ELSE IF HasMarker(l) THEN IF l.mark \in {"one", "paren"} THEN "NumberedItem" ELSE "BulletItem"
  ELSE IF IsFootnote(l) THEN "FootnoteDefinition"
  ELSE IF IsSetextUnderline(last) THEN "Heading" ELSE "Paragraph"

\* The lines of a block belong together.
Inner(ls, b) ==
  /\ b.kind = KindOf(At(ls, b.first), At(ls, b.last - 1))
  /\ \A x \in b.first + 1 .. b.last - 1 : Joined(At(ls, x - 1), At(ls, x))

\* The line at x does not belong to the one before it.
Parted(ls, x) == x < Len(ls) => ~ Joined(At(ls, x - 1), At(ls, x))

Ruled(ls, b) == Inner(ls, b) /\ Parted(ls, b.last)

LEMMA CalmStarts ==
  ASSUME NEW l \in CalmLine, NEW active
  PROVE  /\ HtmlStartAfterContainer(l, active) = {} /\ MathStartAfterContainer(l, active) = {}
         /\ ~ StartsHtml(l) /\ ~ StartsWithDollars(l) /\ ~ OpensFence(l)
<1>1. /\ l.leaf \notin Fences \cup HtmlOpeners \cup {"dollars", "dollarsOne"} /\ l \in Line
  BY DEF CalmLine, Calm
<1>2. Content(l).leaf = l.leaf
  BY <1>1, LineParts
<1>3. Content(l) \in [sp : Nat, quote : BOOLEAN, gap : Nat, mark : Marks, leaf : Leaves]
  BY <1>1 DEF Content, Line
<1>4. ASSUME NEW s \in StartAfterContainer(l, active)
      PROVE  s.piece.leaf = l.leaf
  <2>1. s \in StartCandidates(l, active)
    BY DEF StartAfterContainer
  <2>2. AfterMarker(Content(l)).leaf = l.leaf /\ \A c : Dedent(Content(l), c).leaf = l.leaf
    BY <1>2, <1>3 DEF AfterMarker, Dedent
  <2>3. CASE HasMarker(Content(l))
    BY <2>1, <2>2, <2>3 DEF StartCandidates, Start
  <2>4. CASE ~ HasMarker(Content(l)) /\ { c \in active : c.quote = Depth(l) } # {}
    BY <2>1, <2>2, <2>4 DEF StartCandidates, Start
  <2>5. CASE ~ HasMarker(Content(l)) /\ { c \in active : c.quote = Depth(l) } = {}
    BY <1>2, <2>1, <2>5 DEF StartCandidates, Start
  <2> QED BY <2>3, <2>4, <2>5
<1>5. \A x : x.leaf = l.leaf => ~ StartsHtml(x) /\ ~ StartsMath(x) /\ ~ StartsWithDollars(x) /\ ~ OpensFence(x)
  BY <1>1 DEF StartsHtml, StartsMath, StartsWithDollars, OpensFence, Fences, Backticks
<1> QED BY <1>4, <1>5 DEF HtmlStartAfterContainer, MathStartAfterContainer

\* What is known of a calm line on its own.
LEMMA CalmFacts ==
  ASSUME NEW l \in CalmLine
  PROVE  /\ l \in Line /\ ~ IsTableSeparator(l)
         /\ StartsIndentedCode(l) => IsBlank(l)
         /\ OpensQuote(l) <=> QuoteEndsParagraph(l)
         /\ IsSetextUnderline(l) => ~ Prose(l) /\ ~ OpensQuote(l)
BY DEF CalmLine, Calm, QuoteEndsParagraph, OpensQuote, IsSetextUnderline, Prose

LEMMA CalmText ==
  ASSUME NEW lns \in Seq(CalmLine)
  PROVE  /\ lns \in Seq(Line) /\ Len(lns) \in Nat
         /\ \A k \in 0 .. Len(lns) - 1 : At(lns, k) \in CalmLine
<1>1. CalmLine \subseteq Line
  BY DEF CalmLine
<1>2. lns \in Seq(Line)
  BY <1>1
<1> QED BY <1>2 DEF At

\* The rule that claims a calm line does not depend on what is around it.
LineRule(l) ==
  IF IsBlank(l) THEN "empty"
  ELSE IF IsImageMarker(l) THEN "image"
  ELSE IF IsHorizontalRule(l) THEN "rule"
  ELSE IF IsHeading(l) THEN "heading"
  ELSE IF OpensQuote(l) THEN "quote"
  ELSE IF HasMarker(l) /\ l.mark = "check" THEN "checkbox"
  ELSE IF HasMarker(l) THEN "list"
  ELSE IF IsFootnote(l) THEN "footnote"
  ELSE "paragraph"

LEMMA CalmRule ==
  ASSUME NEW lns \in Seq(CalmLine), NEW s, s.i \in 0 .. Len(lns) - 1
  PROVE  BlockRule(lns, s) = LineRule(At(lns, s.i))
<1> DEFINE l      == At(lns, s.i)
           active == Innermost(Seen(lns, s))
<1>1. l \in CalmLine
  BY CalmText
<1>2. ContainerHtml(lns, s.i, active, s.blocks) = {}
  BY <1>1, CalmStarts DEF ContainerHtml
<1>3. ContainerMath(lns, s.i, active) = {}
  BY <1>1, CalmStarts DEF ContainerMath
<1>4. DollarMath(lns, s.i) = {}
  BY <1>1, CalmStarts DEF DollarMath, StartsWithDollars
<1>5. ~ StartsTable(lns, s.i)
  <2> SUFFICES ASSUME s.i + 1 < Len(lns) PROVE ~ IsTableSeparator(At(lns, s.i + 1))
    BY DEF StartsTable
  <2>1. s.i + 1 \in 0 .. Len(lns) - 1
    BY CalmText
  <2>2. At(lns, s.i + 1) \in CalmLine
    BY <2>1, CalmText
  <2> QED BY <2>2, CalmFacts
<1>6. ~ StartsHtml(l) /\ ~ OpensFence(l) /\ (StartsIndentedCode(l) => IsBlank(l))
  BY <1>1, CalmStarts, CalmFacts
<1> QED BY <1>2, <1>3, <1>4, <1>5, <1>6 DEF BlockRule, LineRule

\* A paragraph goes on as long as there is prose.
LEMMA CalmEnds ==
  ASSUME NEW lns \in Seq(CalmLine), NEW j, NEW k \in 0 .. Len(lns) - 1, k > j, NEW active
  PROVE  EndsParagraph(lns, j, k, active) <=> ~ Prose(At(lns, k))
<1> DEFINE l == At(lns, k)
<1>1. l \in CalmLine
  BY CalmText
<1>2. ~ HtmlInterruptsContainer(l, active) /\ ~ HtmlEndsParagraph(l) /\ ~ OpensFence(l)
  BY <1>1, CalmStarts DEF HtmlInterruptsContainer, HtmlEndsParagraph
<1>3. ~ StartsTable(lns, k)
  <2> SUFFICES ASSUME k + 1 < Len(lns) PROVE ~ IsTableSeparator(At(lns, k + 1))
    BY DEF StartsTable
  <2>1. k + 1 \in 0 .. Len(lns) - 1
    BY CalmText
  <2>2. At(lns, k + 1) \in CalmLine
    BY <2>1, CalmText
  <2> QED BY <2>2, CalmFacts
<1>4. HeldBack(l, active) <=> IsSetextUnderline(l)
  BY <1>1, CalmStarts DEF HeldBack
<1>5. (QuoteEndsParagraph(l) <=> OpensQuote(l)) /\ (IsSetextUnderline(l) => ~ Prose(l))
  BY <1>1, CalmFacts
<1> QED BY <1>2, <1>3, <1>4, <1>5 DEF EndsParagraph, StartsOther, Prose

(***************************************************************************)
(* The blocks the parser makes of calm lines.                              *)
(***************************************************************************)
\* A line that is neither prose nor quoted is a block by itself.
LEMMA OneLineRuled ==
  ASSUME NEW lns \in Seq(CalmLine), NEW j \in 0 .. Len(lns) - 1,
         ~ Prose(At(lns, j)), ~ OpensQuote(At(lns, j)),
         NEW b, b = [kind |-> KindOf(At(lns, j), At(lns, j)), first |-> j, last |-> j + 1]
  PROVE  Ruled(lns, b)
<1>1. j \in Nat /\ j + 1 - 1 = j
  BY CalmText
<1>2. b.first = j /\ b.last = j + 1 /\ b.kind = KindOf(At(lns, j), At(lns, j))
  OBVIOUS
<1>3. Inner(lns, b)
  BY <1>1, <1>2 DEF Inner
<1>4. Parted(lns, b.last)
  BY <1>1, <1>2 DEF Parted, Joined
<1> QED BY <1>3, <1>4 DEF Ruled

\* The paragraph rule: prose, and an underline that closes it.
LEMMA ProseRuled ==
  ASSUME NEW lns \in Seq(CalmLine), NEW j \in 0 .. Len(lns) - 1, Prose(At(lns, j)), NEW active,
         NEW end, end = ParagraphEnd(lns, j, active), end > j,
         NEW b, b = IF end < Len(lns) /\ IsSetextUnderline(At(lns, end))
                    THEN [kind |-> "Heading", first |-> j, last |-> end + 1]
                    ELSE [kind |-> "Paragraph", first |-> j, last |-> end]
  PROVE  Ruled(lns, b)
<1> DEFINE P(k) == EndsParagraph(lns, j, k, active)
           S    == { k \in j .. Len(lns) - 1 : P(k) }
           T    == {Len(lns)} \cup S
           n    == Len(lns)
<1>1. j \in Nat /\ n \in Nat /\ j < n
  BY CalmText
<1>2. end \in T /\ \A k \in T : end <= k
  <2>1. T \in SUBSET Nat /\ T # {}
    BY <1>1
  <2>2. end = Min(T)
    BY DEF ParagraphEnd, FirstOf
  <2> HIDE DEF T
  <2> QED BY <2>1, <2>2, MinIsLeast
<1>3. end \in Nat /\ end <= n /\ (end < n => P(end))
  BY <1>1, <1>2
<1>4. ASSUME NEW k \in j .. end - 1 PROVE Prose(At(lns, k))
  <2>1. k \in 0 .. n - 1 /\ k < end
    BY <1>1, <1>3
  <2>2. k \notin T
    BY <1>1, <1>2, <1>3, <2>1
  <2>3. k # j => ~ P(k)
    BY <1>1, <1>3, <2>1, <2>2
  <2>4. k = j \/ k > j
    BY <1>1
  <2> QED BY <2>1, <2>3, <2>4, CalmEnds
<1>5. end < n => ~ Prose(At(lns, end))
  BY <1>1, <1>3, CalmEnds
<1> HIDE DEF P, S, T
<1>6. end - 1 \in 0 .. n - 1 /\ Prose(At(lns, end - 1)) /\ end - 1 \in j .. end - 1
  BY <1>1, <1>3, <1>4
<1>7. ~ IsSetextUnderline(At(lns, end - 1)) /\ ~ OpensQuote(At(lns, end - 1))
  BY <1>6, CalmText, CalmFacts DEF Prose
<1>8. ASSUME NEW x \in j + 1 .. end - 1 PROVE Joined(At(lns, x - 1), At(lns, x))
  <2>1. x \in j .. end - 1 /\ x - 1 \in j .. end - 1
    BY <1>1, <1>3
  <2> QED BY <1>4, <2>1 DEF Joined
<1>9. CASE end < n /\ IsSetextUnderline(At(lns, end))
  <2>1. b.kind = "Heading" /\ b.first = j /\ b.last = end + 1 /\ b.last - 1 = end
    BY <1>3, <1>9
  <2>2. KindOf(At(lns, j), At(lns, end)) = "Heading"
    BY <1>9 DEF KindOf, Prose
  <2>3. Joined(At(lns, end - 1), At(lns, end))
    BY <1>6, <1>9 DEF Joined
  <2>4. \A x \in j + 1 .. end : x = end \/ x \in j + 1 .. end - 1
    BY <1>1, <1>3
  <2>5. Inner(lns, b)
    <3>1. \A x \in b.first + 1 .. b.last - 1 : Joined(At(lns, x - 1), At(lns, x))
      BY <1>8, <2>1, <2>3, <2>4
    <3>2. b.kind = KindOf(At(lns, b.first), At(lns, b.last - 1))
      BY <2>1, <2>2, Zenon
    <3> QED BY <3>1, <3>2, Zenon DEF Inner
  <2>6. ~ OpensQuote(At(lns, end))
    BY <1>9 DEF IsSetextUnderline, OpensQuote
  <2>7. Parted(lns, b.last)
    <3>1. ~ Joined(At(lns, end), At(lns, b.last))
      BY <1>5, <1>9, <2>6 DEF Joined
    <3> QED BY <2>1, <3>1, Zenon DEF Parted
  <2> QED BY <2>5, <2>7 DEF Ruled
<1>10. CASE ~ (end < n /\ IsSetextUnderline(At(lns, end)))
  <2>1. b.kind = "Paragraph" /\ b.first = j /\ b.last = end
    BY <1>10
  <2>2. KindOf(At(lns, j), At(lns, end - 1)) = "Paragraph"
    BY <1>7 DEF KindOf, Prose
  <2>3. Inner(lns, b)
    BY <1>8, <2>1, <2>2 DEF Inner
  <2>4. Parted(lns, b.last)
    BY <1>5, <1>7, <1>10, <2>1 DEF Parted, Joined
  <2> QED BY <2>3, <2>4 DEF Ruled
<1> QED BY <1>9, <1>10

\* The blocks so far, and the lines of the quote under construction.
CalmState(lns, s) ==
  /\ s.open \in {"none", "quote"}
  /\ s.open = "quote" => \A k \in s.from .. s.i - 1 : OpensQuote(At(lns, k))
  /\ \A n \in 1 .. Len(s.blocks) : Ruled(lns, s.blocks[n])

LEMMA EmitCalm ==
  ASSUME NEW lns \in Seq(CalmLine), NEW s, Sound(lns, s), CalmState(lns, s),
         NEW kind, NEW last, NEW ctxs,
         Ruled(lns, [kind |-> kind, first |-> s.from, last |-> last])
  PROVE  CalmState(lns, Emit(s, kind, s.from, last, ctxs))
<1> DEFINE b  == [kind |-> kind, first |-> s.from, last |-> last]
           t  == Emit(s, kind, s.from, last, ctxs)
           bs == s.blocks
<1>1. bs \in Seq(Block) /\ s = [i |-> s.i, blocks |-> bs, contexts |-> s.contexts,
                               open |-> s.open, from |-> s.from]
  BY DEF Sound
<1>2. t.open = "none" /\ t.blocks = Append(bs, b)
  BY <1>1, Zenon DEF Emit
<1> HIDE DEF b, t, bs
<1>3. Len(Append(bs, b)) = Len(bs) + 1 /\ Len(bs) \in Nat
      /\ \A n \in 1 .. Len(bs) + 1 : Append(bs, b)[n] = IF n = Len(bs) + 1 THEN b ELSE bs[n]
  BY <1>1
<1>4. \A n \in 1 .. Len(bs) : Ruled(lns, bs[n])
  BY DEF CalmState, bs
<1>5. Ruled(lns, b)
  BY DEF b
<1>6. ASSUME NEW n \in 1 .. Len(t.blocks) PROVE Ruled(lns, t.blocks[n])
  <2>1. n \in 1 .. Len(bs) + 1
    BY <1>2, <1>3
  <2>2. CASE n = Len(bs) + 1
    BY <1>2, <1>3, <1>5, <2>1, <2>2
  <2>3. CASE n # Len(bs) + 1
    <3>1. n \in 1 .. Len(bs)
      BY <1>3, <2>1, <2>3
    <3>2. t.blocks[n] = bs[n]
      BY <1>2, <1>3, <2>1, <2>3
    <3> QED BY <1>4, <3>1, <3>2
  <2> QED BY <2>2, <2>3
<1> QED BY <1>2, <1>6 DEF CalmState, t

LEMMA ExtendCalm ==
  ASSUME NEW lns, NEW s, CalmState(lns, s), NEW t, t.open = "quote", t.blocks = s.blocks,
         NEW a, t.from = a, NEW b, t.i = b, \A k \in a .. b - 1 : OpensQuote(At(lns, k))
  PROVE  CalmState(lns, t)
<1>1. \A n \in 1 .. Len(s.blocks) : Ruled(lns, s.blocks[n])
  BY DEF CalmState
<1>2. \A n \in 1 .. Len(t.blocks) : Ruled(lns, t.blocks[n])
  BY <1>1, Zenon
<1>3. \A k \in t.from .. t.i - 1 : OpensQuote(At(lns, k))
  BY Zenon
<1> QED BY <1>2, <1>3, Zenon DEF CalmState

LEMMA ClaimCalm ==
  ASSUME NEW lns \in Seq(CalmLine), NEW s, Sound(lns, s), CalmState(lns, s),
         s.open = "none", s.i < Len(lns)
  PROVE  CalmState(lns, Take(lns, "Editable", s, BlockRule(lns, s)))
<1> DEFINE l == At(lns, s.i)
           r == BlockRule(lns, s)
           t == Take(lns, "Editable", s, r)
<1>1. lns \in Seq(Line) /\ Len(lns) \in Nat
  BY CalmText
<1>2. s.i \in 0 .. Len(lns) - 1 /\ s.from = s.i /\ s.i \in Nat
  BY <1>1 DEF Sound
<1>3. l \in CalmLine /\ r = LineRule(l)
  BY <1>2, CalmText, CalmRule
<1>4. ASSUME ~ Prose(l), ~ OpensQuote(l), NEW kind, kind = KindOf(l, l), NEW ctxs,
             t = Emit(s, kind, s.i, s.i + 1, ctxs)
      PROVE  CalmState(lns, t)
  <2> DEFINE b == [kind |-> kind, first |-> s.from, last |-> s.i + 1]
  <2>1. Ruled(lns, b)
    BY <1>2, <1>4, OneLineRuled
  <2> QED BY <1>2, <1>4, <2>1, EmitCalm
<1>a. CASE IsBlank(l)
  <2>1. r = "empty" /\ KindOf(l, l) = "Empty" /\ ~ Prose(l) /\ ~ OpensQuote(l)
    BY <1>3, <1>a DEF LineRule, KindOf, Prose, IsBlank, Bare, OpensQuote
  <2>2. t = Emit(s, "Empty", s.i, s.i + 1, s.contexts)
    BY <2>1 DEF Take, TakeEmpty
  <2> QED BY <1>4, <2>1, <2>2
<1>b. CASE ~ IsBlank(l) /\ IsImageMarker(l)
  <2>1. r = "image" /\ KindOf(l, l) = "ImageMarker" /\ ~ Prose(l) /\ ~ OpensQuote(l)
    BY <1>3, <1>b DEF LineRule, KindOf, Prose, IsImageMarker, Bare, OpensQuote
  <2>2. t = Emit(s, "ImageMarker", s.i, s.i + 1, s.contexts)
    BY <2>1 DEF Take
  <2> QED BY <1>4, <2>1, <2>2
<1>c. CASE ~ IsBlank(l) /\ ~ IsImageMarker(l) /\ IsHorizontalRule(l)
  <2>1. r = "rule" /\ KindOf(l, l) = "HorizontalRule" /\ ~ Prose(l) /\ ~ OpensQuote(l)
    BY <1>3, <1>c DEF LineRule, KindOf, Prose, IsHorizontalRule, OpensQuote
  <2>2. t = Emit(s, "HorizontalRule", s.i, s.i + 1, Seen(lns, s))
    BY <2>1 DEF Take, TakeOne
  <2> QED BY <1>4, <2>1, <2>2
<1>d. CASE ~ IsBlank(l) /\ ~ IsImageMarker(l) /\ ~ IsHorizontalRule(l) /\ IsHeading(l)
  <2>1. r = "heading" /\ KindOf(l, l) = "Heading" /\ ~ Prose(l) /\ ~ OpensQuote(l)
    BY <1>3, <1>d DEF LineRule, KindOf, Prose, IsHeading, Bare, OpensQuote
  <2>2. t = Emit(s, "Heading", s.i, s.i + 1, Seen(lns, s))
    BY <2>1 DEF Take, TakeOne
  <2> QED BY <1>4, <2>1, <2>2
<1> DEFINE other == ~ IsBlank(l) /\ ~ IsImageMarker(l) /\ ~ IsHorizontalRule(l) /\ ~ IsHeading(l)
<1>e. CASE other /\ OpensQuote(l)
  <2>1. r = "quote"
    BY <1>3, <1>e DEF LineRule
  <2>2. t = OpenQuote(lns, s)
    BY <2>1 DEF Take
  <2>3. t.open = "quote" /\ t.from = s.i /\ t.i = s.i + 1 /\ t.blocks = s.blocks
    BY <2>2 DEF OpenQuote, Sound
  <2> DEFINE a == s.i
             c == s.i + 1
  <2>a. t.open = "quote" /\ t.from = a /\ t.i = c /\ t.blocks = s.blocks
    BY <2>3
  <2>6. \A k \in a .. c - 1 : OpensQuote(At(lns, k))
    <3> TAKE k \in a .. c - 1
    <3>1. k = s.i
      BY <1>2
    <3> QED BY <1>e, <3>1, Zenon
  <2> HIDE DEF t, a, c
  <2>7. CalmState(lns, t)
    BY <2>a, <2>6, ExtendCalm
  <2> QED BY <2>7 DEF t
<1>f. CASE other /\ ~ OpensQuote(l) /\ HasMarker(l)
  <2> DEFINE kind == IF l.mark = "check" THEN "Checkbox"
                     ELSE IF l.mark \in {"one", "paren"} THEN "NumberedItem" ELSE "BulletItem"
  <2>1. r = (IF l.mark = "check" THEN "checkbox" ELSE "list") /\ KindOf(l, l) = kind
        /\ ~ Prose(l)
    BY <1>3, <1>f DEF LineRule, KindOf, Prose
  <2>2. t = Emit(s, kind, s.i, s.i + 1, Seen(lns, s))
    BY <2>1 DEF Take, TakeOne, TakeList
  <2> QED BY <1>4, <1>f, <2>1, <2>2
<1>g. CASE other /\ ~ OpensQuote(l) /\ ~ HasMarker(l) /\ IsFootnote(l)
  <2>1. r = "footnote" /\ KindOf(l, l) = "FootnoteDefinition" /\ ~ Prose(l)
    BY <1>3, <1>g DEF LineRule, KindOf, Prose
  <2>2. t = Emit(s, "FootnoteDefinition", s.i, s.i + 1, Seen(lns, s))
    BY <2>1 DEF Take, TakeOne
  <2> QED BY <1>4, <1>g, <2>1, <2>2
<1>h. CASE Prose(l)
  <2>1. r = "paragraph"
    BY <1>3, <1>h DEF LineRule, Prose
  <2> DEFINE end == ParagraphEnd(lns, s.i, Innermost(Seen(lns, s)))
             b   == IF end < Len(lns) /\ IsSetextUnderline(At(lns, end))
                    THEN [kind |-> "Heading", first |-> s.i, last |-> end + 1]
                    ELSE [kind |-> "Paragraph", first |-> s.i, last |-> end]
  <2>2. end \in s.i + 1 .. Len(lns)
    BY <1>1, <1>2, <2>1, ParagraphTakesItsLine
  <2>3. end > s.i
    BY <1>2, <2>2
  <2>4. Ruled(lns, b)
    BY <1>2, <1>h, <2>3, ProseRuled
  <2>5. t = TakeParagraph(lns, s)
    BY <2>1 DEF Take
  <2> HIDE DEF t, l
  <2>6. CASE end < Len(lns) /\ IsSetextUnderline(At(lns, end))
    <3>1. t = Emit(s, "Heading", s.i, end + 1, Seen(lns, s))
      BY <2>3, <2>5, <2>6, Zenon DEF TakeParagraph, TakeThrough
    <3>2. Ruled(lns, [kind |-> "Heading", first |-> s.from, last |-> end + 1])
      BY <1>2, <2>4, <2>6
    <3> QED BY <1>2, <3>1, <3>2, EmitCalm, Zenon DEF t
  <2>7. CASE ~ (end < Len(lns) /\ IsSetextUnderline(At(lns, end)))
    <3>1. t = Emit(s, "Paragraph", s.i, end, Seen(lns, s))
      BY <2>3, <2>5, <2>7, Zenon DEF TakeParagraph, TakeThrough
    <3>2. Ruled(lns, [kind |-> "Paragraph", first |-> s.from, last |-> end])
      BY <1>2, <2>4, <2>7
    <3> QED BY <1>2, <3>1, <3>2, EmitCalm, Zenon DEF t
  <2> QED BY <2>6, <2>7 DEF t
<1> QED BY <1>a, <1>b, <1>c, <1>d, <1>e, <1>f, <1>g, <1>h DEF Prose

\* A quote goes on as long as the lines are quoted.
LEMMA QuoteCalm ==
  ASSUME NEW lns \in Seq(CalmLine), NEW s, Sound(lns, s), CalmState(lns, s), s.open = "quote"
  PROVE  /\ QuoteEnds(lns, s) => CalmState(lns, CloseQuote(lns, s))
         /\ ~ QuoteEnds(lns, s) => CalmState(lns, ExtendOpen(lns, s))
<1> DEFINE l == At(lns, s.i)
<1>1. /\ Len(lns) \in Nat /\ s.i \in Nat /\ s.i <= Len(lns) /\ s.from \in Nat /\ s.from < s.i
      /\ s.open = "quote"
  BY CalmText DEF Sound
<1>2. \A k \in s.from .. s.i - 1 : OpensQuote(At(lns, k))
  BY DEF CalmState
<1>3. s.i < Len(lns) => (QuoteEnds(lns, s) <=> ~ OpensQuote(l))
  <2> SUFFICES ASSUME s.i < Len(lns) PROVE QuoteEnds(lns, s) <=> ~ OpensQuote(l)
    OBVIOUS
  <2>1. l \in CalmLine
    BY <1>1, CalmText
  <2>2. QuotedMathStart(l) = {} /\ HtmlStartAfterContainer(l, Innermost(s.contexts)) = {}
    BY <2>1, CalmStarts DEF QuotedMathStart
  <2> QED BY <2>2 DEF QuoteEnds, QuoteInterrupted, HtmlInterruptsContainer
<1>4. ASSUME QuoteEnds(lns, s) PROVE CalmState(lns, CloseQuote(lns, s))
  <2> DEFINE first == At(lns, s.from)
             kind  == IF Bare(Content(first)) /\ Content(first).leaf = "callout"
                      THEN "Callout" ELSE "Blockquote"
             b     == [kind |-> kind, first |-> s.from, last |-> s.i]
  <2>1. CloseQuote(lns, s) = Emit(s, kind, s.from, s.i, s.contexts)
    BY DEF CloseQuote
  <2>2. s.from \in s.from .. s.i - 1 /\ s.i - 1 \in s.from .. s.i - 1
    BY <1>1
  <2>3. OpensQuote(first) /\ OpensQuote(At(lns, s.i - 1))
    BY <1>2, <2>2
  <2>4. kind = KindOf(first, At(lns, s.i - 1))
    BY <2>3 DEF KindOf, IsBlank, IsImageMarker, IsHorizontalRule, IsHeading, Bare, OpensQuote
  <2>5. \A x \in s.from + 1 .. s.i - 1 : Joined(At(lns, x - 1), At(lns, x))
    <3> TAKE x \in s.from + 1 .. s.i - 1
    <3>1. x \in s.from .. s.i - 1 /\ x - 1 \in s.from .. s.i - 1
      BY <1>1
    <3> QED BY <1>2, <3>1 DEF Joined
  <2>6. s.i < Len(lns) => ~ Joined(At(lns, s.i - 1), l)
    BY <1>3, <1>4, <2>3 DEF Joined, Prose
  <2> HIDE DEF kind
  <2>7. b.kind = kind /\ b.first = s.from /\ b.last = s.i
    OBVIOUS
  <2>8. Inner(lns, b)
    BY <2>4, <2>5, <2>7 DEF Inner
  <2>9. Parted(lns, b.last)
    BY <2>6, <2>7 DEF Parted
  <2>10. Ruled(lns, b)
    BY <2>8, <2>9 DEF Ruled
  <2> QED BY <2>1, <2>10, EmitCalm
<1>5. ASSUME ~ QuoteEnds(lns, s) PROVE CalmState(lns, ExtendOpen(lns, s))
  <2> DEFINE t == ExtendOpen(lns, s)
  <2>1. s.i < Len(lns) /\ OpensQuote(l)
    BY <1>1, <1>3, <1>5 DEF QuoteEnds
  <2>2. t.open = "quote" /\ t.from = s.from /\ t.i = s.i + 1 /\ t.blocks = s.blocks
    BY <1>1 DEF ExtendOpen, Sound
  <2> DEFINE a == s.from
             c == s.i + 1
  <2>a. t.open = "quote" /\ t.from = a /\ t.i = c /\ t.blocks = s.blocks
    BY <2>2
  <2>5. \A k \in a .. c - 1 : OpensQuote(At(lns, k))
    <3> TAKE k \in a .. c - 1
    <3>1. k = s.i \/ k \in s.from .. s.i - 1
      BY <1>1
    <3> QED BY <1>2, <2>1, <3>1, Zenon
  <2> HIDE DEF t, a, c
  <2>6. CalmState(lns, t)
    BY <2>a, <2>5, ExtendCalm
  <2> QED BY <2>6 DEF t
<1> QED BY <1>4, <1>5

LEMMA StepCalm ==
  ASSUME NEW lns \in Seq(CalmLine), NEW s, Sound(lns, s), CalmState(lns, s)
  PROVE  CalmState(lns, Step(lns, "Editable", s))
<1>1. CASE Finished(lns, s)
  BY <1>1, Zenon DEF Step, Finished
<1>2. CASE ~ Finished(lns, s) /\ s.open = "none"
  <2>1. s.i < Len(lns)
    BY <1>2, CalmText DEF Finished, Sound
  <2>2. Step(lns, "Editable", s) = Take(lns, "Editable", s, BlockRule(lns, s))
    BY <1>2, Zenon DEF Step
  <2> QED BY <1>2, <2>1, <2>2, ClaimCalm
<1>3. CASE ~ Finished(lns, s) /\ s.open = "quote"
  <2>1. Step(lns, "Editable", s)
          = IF QuoteEnds(lns, s) THEN CloseQuote(lns, s) ELSE ExtendOpen(lns, s)
    BY <1>3 DEF Step
  <2> QED BY <1>3, <2>1, QuoteCalm
<1> QED BY <1>1, <1>2, <1>3 DEF CalmState

LEMMA CalmParse ==
  ASSUME NEW lns \in Seq(CalmLine)
  PROVE  \A n \in 1 .. Len(ParseBlocks(lns, "Editable")) :
           Ruled(lns, ParseBlocks(lns, "Editable")[n])
<1>0. lns \in Seq(Line) /\ Len(lns) \in Nat
  BY CalmText
<1>1. PICK g : /\ Runs(lns, "Editable", 2 * Len(lns), g)
               /\ ParseBlocks(lns, "Editable") = g[2 * Len(lns)].blocks
  BY <1>0, ParseIsRun
<1> DEFINE b == 2 * Len(lns)
           m == "Editable"
           S == { n \in 0 .. b : Sound(lns, g[n]) /\ Tiles(lns, m, g[n]) /\ CalmState(lns, g[n]) }
<1>2. b \in Nat
  BY <1>0
<1>3. 0 \in S
  <2>1. g[0] = ParserStart
    BY <1>1, <1>2 DEF Runs
  <2>2. Sound(lns, ParserStart)
    BY <1>0 DEF Sound, ParserStart
  <2>3. Tiles(lns, m, ParserStart)
    BY DEF Tiles, ParserStart
  <2>4. CalmState(lns, ParserStart)
    BY DEF CalmState, ParserStart
  <2> QED BY <1>2, <2>1, <2>2, <2>3, <2>4
<1>4. ASSUME NEW n \in 0 .. b - 1, n \in S PROVE n + 1 \in S
  <2>1. g[n + 1] = Step(lns, m, g[n])
    BY <1>1, <1>2 DEF Runs
  <2>2. Sound(lns, g[n]) /\ Tiles(lns, m, g[n]) /\ CalmState(lns, g[n])
    BY <1>4
  <2>3. Sound(lns, g[n + 1]) /\ Tiles(lns, m, g[n + 1])
    BY <1>0, <2>1, <2>2, StepRanks DEF Modes
  <2>4. CalmState(lns, g[n + 1])
    BY <2>1, <2>2, StepCalm
  <2> QED BY <1>2, <2>3, <2>4
<1>5. b \in S
  <2>1. 0 .. b \subseteq S
    <3> HIDE DEF S, b
    <3> QED BY <1>2, <1>3, <1>4, UpTo
  <2> QED BY <1>2, <2>1
<1> QED BY <1>1, <1>5 DEF CalmState

(***************************************************************************)
(* A calm text has one cut into such blocks.                               *)
(***************************************************************************)
AllRuled(t, bs) == \A n \in 1 .. Len(bs) : Ruled(t.lines, bs[n])

LEMMA SameRuled ==
  ASSUME NEW ls, NEW b, NEW c, Ruled(ls, b),
         c.kind = b.kind, c.first = b.first, c.last = b.last
  PROVE  Ruled(ls, c)
BY Zenon DEF Ruled, Inner, Parted

LEMMA FullParseRuled ==
  ASSUME NEW t \in Text, t.lines \in Seq(CalmLine)
  PROVE  AllRuled(t, FullParse(t))
<1> DEFINE bs == ParseBlocks(t.lines, "Editable")
           ns == FullParse(t)
<1>1. bs \in Seq(Block)
  BY ParseCuts DEF Text
<1>2. \A n \in 1 .. Len(bs) : Ruled(t.lines, bs[n])
  BY CalmParse
<1>3. ns = [n \in DOMAIN bs |-> Node(t, bs[n])]
  BY DEF FullParse, Nodes
<1> HIDE DEF bs, ns
<1>4. DOMAIN bs = 1 .. Len(bs) /\ Len(bs) \in Nat
  BY <1>1
<1>5. Len(ns) = Len(bs) /\ \A n \in 1 .. Len(bs) : ns[n] = Node(t, bs[n])
  BY <1>3, <1>4
<1>6. ASSUME NEW n \in 1 .. Len(ns) PROVE Ruled(t.lines, ns[n])
  <2>1. ns[n] = Node(t, bs[n]) /\ Ruled(t.lines, bs[n])
    BY <1>2, <1>5
  <2>2. ns[n].kind = bs[n].kind /\ ns[n].first = bs[n].first /\ ns[n].last = bs[n].last
    BY <2>1 DEF Node
  <2> QED BY <2>1, <2>2, SameRuled
<1> QED BY <1>6 DEF AllRuled, ns

\* Where a block starts decides where it ends and what it is.
LEMMA SameStart ==
  ASSUME NEW ls, NEW n \in Nat, Len(ls) = n, NEW b, NEW c, Ruled(ls, b), Ruled(ls, c),
         b.first \in Nat, b.last \in Nat, c.last \in Nat, c.first = b.first,
         b.first < b.last, c.first < c.last, b.last <= n, c.last <= n
  PROVE  c.last = b.last /\ c.kind = b.kind
<1>1. ASSUME NEW x, NEW y, Ruled(ls, x), Ruled(ls, y), x.first \in Nat, x.last \in Nat, y.last \in Nat,
             y.first = x.first, x.first < x.last, y.last <= n, x.last < y.last
      PROVE  FALSE
  <2>1. x.last \in y.first + 1 .. y.last - 1 /\ x.last < Len(ls)
    BY <1>1
  <2>2. Joined(At(ls, x.last - 1), At(ls, x.last))
    BY <1>1, <2>1 DEF Ruled, Inner
  <2> QED BY <1>1, <2>1, <2>2 DEF Ruled, Parted
<1>2. ~ (b.last < c.last)
  BY <1>1
<1>3. ~ (c.last < b.last)
  BY <1>1
<1>4. c.last = b.last
  BY <1>2, <1>3
<1> QED BY <1>4, Zenon DEF Ruled, Inner

LEMMA OneCut ==
  ASSUME NEW t \in Text, NEW bs, NEW cs, Laid(t, bs, 0, Len(t.lines)), Laid(t, cs, 0, Len(t.lines)),
         AllRuled(t, bs), AllRuled(t, cs)
  PROVE  bs = cs
<1> DEFINE m == Len(t.lines)
           Same(n) == n <= Len(cs) /\ \A k \in 1 .. n : bs[k] = cs[k]
           S == { n \in 0 .. Len(bs) : Same(n) }
<1>0. m \in Nat /\ 0 \in Nat
  BY DEF Text
<1>1. /\ bs \in Seq(Placed(t)) /\ Chain(bs, 0, m) /\ Len(bs) \in Nat
      /\ cs \in Seq(Placed(t)) /\ Chain(cs, 0, m) /\ Len(cs) \in Nat
  BY DEF Laid
<1>2. ASSUME NEW n \in 0 .. Len(bs), Same(n) PROVE Cut(bs, 0, n) = Cut(cs, 0, n)
  <2>1. n = 0 \/ n \in 1 .. n
    BY <1>1
  <2> QED BY <1>2, <2>1 DEF Cut
<1>3. 0 \in S
  BY <1>1
<1>4. ASSUME NEW n \in 0 .. Len(bs) - 1, n \in S PROVE n + 1 \in S
  <2>1. n \in 0 .. Len(bs) /\ n < Len(bs) /\ Same(n) /\ n \in Nat /\ n \in 0 .. Len(cs)
    BY <1>1, <1>4
  <2>2. Cut(bs, 0, n) = bs[n + 1].first /\ Cut(bs, 0, n) < m
    <3> HIDE DEF m
    <3> QED BY <1>0, <1>1, <2>1, CutType
  <2>3. Cut(cs, 0, n) = Cut(bs, 0, n)
    BY <1>2, <2>1
  <2>4. n < Len(cs) /\ Cut(cs, 0, n) = cs[n + 1].first
    <3>1. n = Len(cs) => Cut(cs, 0, n) = m
      <4> HIDE DEF m
      <4> QED BY <1>0, <1>1, <2>1, CutType
    <3>2. n # Len(cs)
      BY <1>0, <2>2, <2>3, <3>1
    <3>3. n < Len(cs)
      BY <1>1, <2>1, <3>2
    <3> HIDE DEF m
    <3> QED BY <1>0, <1>1, <2>1, <3>3, CutType
  <2> DEFINE b == bs[n + 1]
             c == cs[n + 1]
  <2>5. n + 1 \in 1 .. Len(bs) /\ n + 1 \in 1 .. Len(cs)
    BY <1>1, <2>1, <2>4
  <2>6. c.first = b.first
    BY <2>2, <2>3, <2>4
  <2>7. /\ b.first \in Nat /\ b.last \in Nat /\ b.first < b.last /\ b.last <= m
        /\ c.first \in Nat /\ c.last \in Nat /\ c.first < c.last /\ c.last <= m
    <3> HIDE DEF m
    <3> QED BY <1>1, <2>5, ChainBounds
  <2>8. b \in Placed(t) /\ c \in Placed(t) /\ Ruled(t.lines, b) /\ Ruled(t.lines, c)
    BY <1>1, <2>5 DEF AllRuled
  <2>9. c.last = b.last /\ c.kind = b.kind
    <3> DEFINE ls == t.lines
    <3>1. Len(ls) = m /\ m \in Nat /\ Ruled(ls, b) /\ Ruled(ls, c)
      BY <1>0, <2>8
    <3> HIDE DEF b, c, m, ls
    <3> QED BY <2>6, <2>7, <3>1, SameStart
  <2>10. b = c
    <3> HIDE DEF b, c
    <3>1. /\ b = Node(t, [kind |-> b.kind, first |-> b.first, last |-> b.last])
          /\ c = Node(t, [kind |-> c.kind, first |-> c.first, last |-> c.last])
      BY <2>8, PlacedFields
    <3> QED BY <2>6, <2>9, <3>1, Zenon
  <2>11. \A k \in 1 .. n + 1 : k = n + 1 \/ k \in 1 .. n
    BY <2>1
  <2>12. n + 1 <= Len(cs) /\ n + 1 \in 0 .. Len(bs)
    BY <1>1, <2>5
  <2> QED BY <2>1, <2>10, <2>11, <2>12
<1>5. Same(Len(bs))
  <2>1. 0 .. Len(bs) \subseteq S
    <3> HIDE DEF S
    <3> QED BY <1>1, <1>3, <1>4, UpTo
  <2> QED BY <1>1, <2>1
<1>6. Len(bs) = Len(cs)
  <2> SUFFICES ASSUME Len(bs) # Len(cs) PROVE FALSE
    OBVIOUS
  <2>1. Len(bs) \in 0 .. Len(bs) /\ Len(bs) \in 0 .. Len(cs) /\ Len(bs) < Len(cs)
    BY <1>1, <1>5
  <2>2. Cut(bs, 0, Len(bs)) = m
    <3> DEFINE k == Len(bs)
    <3>1. k \in 0 .. Len(bs) /\ k = Len(bs)
      BY <2>1
    <3> HIDE DEF m, k
    <3>2. Cut(bs, 0, k) = m
      BY <1>0, <1>1, <3>1, CutType
    <3> QED BY <3>2 DEF k
  <2>3. Cut(cs, 0, Len(bs)) < m
    <3> DEFINE k == Len(bs)
    <3>1. k \in 0 .. Len(cs) /\ k < Len(cs)
      BY <2>1
    <3> HIDE DEF m, k
    <3>2. Cut(cs, 0, k) < m
      BY <1>0, <1>1, <3>1, CutType
    <3> QED BY <3>2 DEF k
  <2>4. Cut(bs, 0, Len(bs)) = Cut(cs, 0, Len(bs))
    BY <1>2, <1>5, <2>1
  <2> QED BY <1>0, <2>2, <2>3, <2>4
<1>7. \A k \in 1 .. Len(bs) : bs[k] = cs[k]
  BY <1>5
<1> QED BY <1>1, <1>6, <1>7, SeqEqual

\* A text of calm lines has no other such cut than its parse.
LEMMA RuledIsParse ==
  ASSUME NEW t \in Text, t.lines \in Seq(CalmLine), NEW bs, Laid(t, bs, 0, Len(t.lines)),
         AllRuled(t, bs)
  PROVE  bs = FullParse(t)
BY FullParseLaid, FullParseRuled, OneCut

LEMMA AddDifference ==
  ASSUME NEW a \in Nat, NEW b \in Nat
  PROVE  /\ \A n \in Nat : a <= n => n + (b - a) \in Nat
         /\ \A m, n \in Nat : m < n => m + (b - a) < n + (b - a)
OBVIOUS

\* In the common part, blocks of the one text become blocks of the other.
LEMMA MovedLaid ==
  ASSUME NEW t \in Text, NEW u \in Text, NEW a, NEW b, NEW d, SamePart(t, a, u, b, d),
         NEW bs, Laid(t, bs, a, a + d)
  PROVE  LET ms == Moved(bs, ByteAt(u, b) - ByteAt(t, a), UnitAt(u, b) - UnitAt(t, a), b - a)
         IN  Laid(u, ms, b, b + d) /\ Len(ms) = Len(bs)
<1> DEFINE bytes == ByteAt(u, b) - ByteAt(t, a)
           units == UnitAt(u, b) - UnitAt(t, a)
           ms == Moved(bs, bytes, units, b - a)
<1>0. /\ a \in Nat /\ b \in Nat /\ d \in Nat
  BY DEF SamePart, SameLines
<1>1. bs \in Seq(Placed(t)) /\ Chain(bs, a, a + d) /\ Len(bs) \in Nat /\ DOMAIN bs = 1 .. Len(bs)
  BY DEF Laid
<1> HIDE DEF bytes, units
<1>2. ms = [n \in 1 .. Len(bs) |-> Shift(bs[n], bytes, units, b - a)]
  BY <1>1 DEF Moved
<1> HIDE DEF ms
<1>3. ASSUME NEW n \in 1 .. Len(bs)
      PROVE  /\ ms[n] \in Placed(u) /\ ms[n].first = bs[n].first + (b - a)
             /\ ms[n].last = bs[n].last + (b - a)
             /\ bs[n].first \in Nat /\ bs[n].last \in Nat /\ bs[n].first < bs[n].last
             /\ a <= bs[n].first
             /\ ms[n].first \in Nat /\ ms[n].last \in Nat
  <2> DEFINE x == bs[n]
             c == [kind |-> x.kind, first |-> x.first, last |-> x.last]
             e == Displaced(c, b - a)
  <2>1. x \in Placed(t)
    BY <1>1
  <2>2. c \in Block /\ x = Node(t, c)
    BY <2>1, PlacedFields
  <2>3. /\ x.first \in Nat /\ x.last \in Nat /\ a <= x.first /\ x.first < x.last /\ x.last <= a + d
    BY <1>1, ChainBounds
  <2>4. c.first = x.first /\ c.last = x.last /\ c.kind = x.kind
    OBVIOUS
  <2>5. Within(c, a, d)
    BY <2>3, <2>4 DEF Within
  <2> HIDE DEF c, x, e
  <2>a. Shift(Node(t, c), ByteAt(u, b) - ByteAt(t, a), UnitAt(u, b) - UnitAt(t, a), b - a)
          = Node(u, Displaced(c, b - a))
    BY <2>2, <2>5, MovedNode
  <2>6. Shift(x, bytes, units, b - a) = Node(u, e)
    BY <2>2, <2>a, Zenon DEF bytes, units, e
  <2>7. x.first + (b - a) \in Nat /\ x.last + (b - a) \in Nat
    BY <1>0, <2>3, AddDifference
  <2>8. e \in Block /\ e.first = x.first + (b - a) /\ e.last = x.last + (b - a)
    BY <2>2, <2>4, <2>7 DEF Block, Displaced, e
  <2>9. ms[n] = Node(u, e)
    BY <1>2, <2>6 DEF x
  <2>10. ms[n] \in Placed(u)
    BY <2>8, <2>9 DEF Placed
  <2>11. ms[n].first = e.first /\ ms[n].last = e.last
    BY <2>9 DEF Node
  <2> QED BY <2>3, <2>7, <2>8, <2>10, <2>11 DEF x
<1>4. ms \in Seq(Placed(u)) /\ Len(ms) = Len(bs)
  BY <1>1, <1>2, <1>3
<1>5. ms = <<>> <=> bs = <<>>
  <2>1. bs = <<>> <=> Len(bs) = 0
    BY <1>1
  <2>2. ms = <<>> <=> Len(ms) = 0
    BY <1>4
  <2> QED BY <1>4, <2>1, <2>2
<1>6. Chain(ms, b, b + d)
  <2>1. ASSUME NEW k \in 1 .. Len(ms)
        PROVE  /\ ms[k].first \in Nat /\ ms[k].last \in Nat
               /\ ms[k].first < ms[k].last
               /\ ms[k].first = (IF k = 1 THEN b ELSE ms[k - 1].last)
    <3>1. k \in 1 .. Len(bs) /\ (k # 1 => k - 1 \in 1 .. Len(bs))
      BY <1>1, <1>4
    <3>2. bs[k].first = (IF k = 1 THEN a ELSE bs[k - 1].last)
      BY <1>1, <3>1 DEF Chain
    <3>3. /\ ms[k].first = bs[k].first + (b - a) /\ ms[k].last = bs[k].last + (b - a)
          /\ bs[k].first \in Nat /\ bs[k].last \in Nat /\ bs[k].first < bs[k].last
          /\ ms[k].first \in Nat /\ ms[k].last \in Nat
      BY <1>3, <3>1
    <3>4. k # 1 => ms[k - 1].last = bs[k - 1].last + (b - a)
      BY <1>3, <3>1
    <3>5. ms[k].first < ms[k].last
      BY <1>0, <3>3, AddDifference
    <3>6. k = 1 => ms[k].first = b
      BY <1>0, <3>2, <3>3
    <3> QED BY <3>2, <3>3, <3>4, <3>5, <3>6
  <2>2. ms # <<>> => ms[Len(ms)].last = b + d
    <3> SUFFICES ASSUME ms # <<>> PROVE ms[Len(ms)].last = b + d
      OBVIOUS
    <3>1. bs # <<>> /\ Len(bs) \in 1 .. Len(bs)
      BY <1>1, <1>5
    <3>2. bs[Len(bs)].last = a + d
      BY <1>1, <3>1 DEF Chain
    <3>3. ms[Len(bs)].last = bs[Len(bs)].last + (b - a)
      BY <1>3, <3>1
    <3> QED BY <1>0, <1>4, <3>2, <3>3
  <2>3. ms = <<>> <=> b = b + d
    <3>1. bs = <<>> <=> a = a + d
      BY <1>1 DEF Chain
    <3>2. a = a + d <=> b = b + d
      BY <1>0
    <3> QED BY <1>5, <3>1, <3>2
  <2> QED BY <2>1, <2>2, <2>3 DEF Chain
<1> QED BY <1>4, <1>6 DEF Laid, ms, bytes, units

\* Blocks before the first difference stay as they are.
LEMMA StillLaid ==
  ASSUME NEW t \in Text, NEW u \in Text, NEW d, SamePart(t, 0, u, 0, d),
         NEW bs, Laid(t, bs, 0, d)
  PROVE  Laid(u, bs, 0, d)
<1>0. d \in Nat
  BY DEF SamePart, SameLines
<1>1. bs \in Seq(Placed(t)) /\ Chain(bs, 0, d) /\ Len(bs) \in Nat
  BY DEF Laid
<1>2. ASSUME NEW len \in Lengths, NEW k \in 0 .. d PROVE Offset(t, k, len) = Offset(u, k, len)
  <2>1. Offset(t, 0 + k, len) - Offset(t, 0, len) = Offset(u, 0 + k, len) - Offset(u, 0, len)
    BY OffsetsParallel
  <2>2. Offset(t, 0, len) = 0 /\ Offset(u, 0, len) = 0 /\ 0 + k = k
    BY <1>0, OffsetStarts
  <2>3. k \in 0 .. Len(t.lines) /\ k \in 0 .. Len(u.lines)
    <3>1. d <= Len(t.lines) /\ d <= Len(u.lines) /\ Len(t.lines) \in Nat /\ Len(u.lines) \in Nat
      BY DEF SamePart, SameLines, Text
    <3> QED BY <1>0, <3>1
  <2>4. Offset(t, k, len) \in Nat /\ Offset(u, k, len) \in Nat
    BY <2>3, OffsetType
  <2> QED BY <2>1, <2>2, <2>4
<1>3. ASSUME NEW n \in 1 .. Len(bs) PROVE bs[n] \in Placed(u)
  <2> DEFINE x == bs[n]
             c == [kind |-> x.kind, first |-> x.first, last |-> x.last]
  <2>1. x \in Placed(t)
    BY <1>1
  <2>2. c \in Block /\ x = Node(t, c)
    BY <2>1, PlacedFields
  <2>3. /\ x.first \in Nat /\ x.last \in Nat /\ x.first < x.last /\ x.last <= d
    BY <1>1, ChainBounds
  <2>4. c.first = x.first /\ c.last = x.last
    OBVIOUS
  <2> HIDE DEF c, x
  <2>5. c.first \in 0 .. d /\ c.last \in 0 .. d
    BY <1>0, <2>3, <2>4
  <2>6. /\ ByteAt(t, c.first) = ByteAt(u, c.first) /\ ByteAt(t, c.last) = ByteAt(u, c.last)
        /\ UnitAt(t, c.first) = UnitAt(u, c.first) /\ UnitAt(t, c.last) = UnitAt(u, c.last)
    BY <1>2, <2>5 DEF ByteAt, UnitAt, Lengths
  <2>7. Body(t, c.first, c.last) = Body(u, c.first, c.last)
    <3>1. SameSpan(0, 0, d, c.first, c.last, c.first, c.last)
      BY <1>0, <2>3, <2>4 DEF SameSpan
    <3> QED BY <3>1, SameBody
  <2>8. Node(t, c) = Node(u, c)
    BY <2>6, <2>7, Zenon DEF Node, Body
  <2>9. x \in Placed(u)
    BY <2>2, <2>8 DEF Placed
  <2> QED BY <2>9 DEF x
<1>4. bs \in Seq(Placed(u))
  BY <1>1, <1>3
<1> QED BY <1>1, <1>4 DEF Laid

(***************************************************************************)
(* Offsets and lines of one text.                                          *)
(***************************************************************************)
LEMMA LeastOfTwo ==
  ASSUME NEW x \in Int, NEW y \in Int
  PROVE  Min({x, y}) = (IF x <= y THEN x ELSE y)
<1> DEFINE m == IF x <= y THEN x ELSE y
<1>1. m \in {x, y} /\ \A z \in {x, y} : m <= z
  OBVIOUS
<1>2. \A n \in {x, y} : (\A z \in {x, y} : n <= z) => n = m
  OBVIOUS
<1> HIDE DEF m
<1>3. Min({x, y}) = m
  BY <1>1, <1>2 DEF Min
<1> QED BY <1>3 DEF m

LEMMA GreatestOfTwo ==
  ASSUME NEW x \in Int, NEW y \in Int
  PROVE  Max({x, y}) = (IF x >= y THEN x ELSE y)
<1> DEFINE m == IF x >= y THEN x ELSE y
<1>1. m \in {x, y} /\ \A z \in {x, y} : m >= z
  OBVIOUS
<1>2. \A n \in {x, y} : (\A z \in {x, y} : n >= z) => n = m
  OBVIOUS
<1> HIDE DEF m
<1>3. Max({x, y}) = m
  BY <1>1, <1>2 DEF Max
<1> QED BY <1>3 DEF m

\* An offset is that of one line at most, and rounds up to itself.
LEMMA LineAtOffset ==
  ASSUME NEW t \in Text, NEW k \in 0 .. Len(t.lines)
  PROVE  /\ LinesAt(t, ByteAt(t, k)) = {k}
         /\ LineEndFrom(t, ByteAt(t, k)) = ByteAt(t, k)
         /\ ByteAt(t, k) \in Nat /\ ByteAt(t, k) <= ByteLength(t)
<1>0. LeafBytes \in Lengths /\ Len(t.lines) \in Nat /\ Len(t.lines) \in 0 .. Len(t.lines)
  BY DEF Lengths, Text
<1>1. \A j \in 0 .. Len(t.lines) : ByteAt(t, j) \in Nat
  BY <1>0, OffsetType DEF ByteAt
<1>2. \A m, n \in 0 .. Len(t.lines) : m < n => ByteAt(t, m) < ByteAt(t, n)
  BY <1>0, OffsetIncreases DEF ByteAt
<1>3. \A j \in 0 .. Len(t.lines) : ByteAt(t, j) = ByteAt(t, k) <=> j = k
  <2> TAKE j \in 0 .. Len(t.lines)
  <2>1. j < k \/ j = k \/ k < j
    BY <1>0
  <2>2. j < k => ByteAt(t, j) < ByteAt(t, k)
    BY <1>2
  <2>3. k < j => ByteAt(t, k) < ByteAt(t, j)
    BY <1>2
  <2>4. ByteAt(t, j) \in Nat /\ ByteAt(t, k) \in Nat
    BY <1>1
  <2> QED BY <2>1, <2>2, <2>3, <2>4
<1>4. LinesAt(t, ByteAt(t, k)) = {k}
  BY <1>3 DEF LinesAt
<1> DEFINE S == { x \in { ByteAt(t, j) : j \in 0 .. Len(t.lines) } : x >= ByteAt(t, k) }
<1>5. ByteAt(t, k) \in S /\ S \in SUBSET Nat /\ \A x \in S : ByteAt(t, k) <= x
  BY <1>1
<1> HIDE DEF S
<1>6. Min(S) = ByteAt(t, k)
  <2>1. Min(S) \in S /\ \A x \in S : Min(S) <= x
    BY <1>5, MinIsLeast
  <2>2. Min(S) <= ByteAt(t, k) /\ ByteAt(t, k) <= Min(S) /\ Min(S) \in Nat /\ ByteAt(t, k) \in Nat
    BY <1>1, <1>5, <2>1
  <2> QED BY <2>2
<1>7. ByteAt(t, k) <= ByteLength(t)
  <2>1. k = Len(t.lines) \/ k < Len(t.lines)
    BY <1>0
  <2>2. k < Len(t.lines) => ByteAt(t, k) < ByteAt(t, Len(t.lines))
    BY <1>0, <1>2
  <2>3. ByteAt(t, k) \in Nat /\ ByteAt(t, Len(t.lines)) \in Nat
    BY <1>0, <1>1
  <2> QED BY <2>1, <2>2, <2>3 DEF ByteLength
<1> QED BY <1>1, <1>4, <1>6, <1>7 DEF LineEndFrom, S

\* Lines are in the order of their offsets.
LEMMA LinesOrdered ==
  ASSUME NEW t \in Text, NEW len \in Lengths,
         NEW j \in 0 .. Len(t.lines), NEW k \in 0 .. Len(t.lines),
         Offset(t, j, len) <= Offset(t, k, len)
  PROVE  j <= k
<1>1. j \in Nat /\ k \in Nat
  BY DEF Text
<1>2. Offset(t, j, len) \in Nat /\ Offset(t, k, len) \in Nat
  BY OffsetType
<1>3. k < j => Offset(t, k, len) < Offset(t, j, len)
  BY OffsetIncreases
<1> QED BY <1>1, <1>2, <1>3

(***************************************************************************)
(* An edit: text u has the first f lines of t, and all from line e on,     *)
(* which end as they did.                                                  *)
(***************************************************************************)
Longer(t, u) == Len(u.lines) - Len(t.lines)

Changed(t, u, f, e) ==
  /\ f \in Nat /\ e \in Nat /\ f <= e /\ e <= Len(t.lines)
  /\ SameLines(t.lines, 0, u.lines, 0, f)
  /\ SameLines(t.lines, e, u.lines, e + Longer(t, u), Len(t.lines) - e)
  /\ f <= e + Longer(t, u)
  /\ e < Len(t.lines) => u.ended = t.ended

LEMMA SamePrefix ==
  ASSUME NEW t \in Text, NEW u \in Text, NEW f, NEW e, Changed(t, u, f, e),
         NEW k \in Nat, k <= f, k < Len(t.lines), k < Len(u.lines)
  PROVE  SamePart(t, 0, u, 0, k)
<1>1. Len(t.lines) \in Nat /\ Len(u.lines) \in Nat
  BY DEF Text
<1>2. SameLines(t.lines, 0, u.lines, 0, f) /\ f \in Nat
  BY DEF Changed
<1>3. \A n \in 1 .. k : t.lines[0 + n] = u.lines[0 + n]
  <2> TAKE n \in 1 .. k
  <2>1. n \in 1 .. f
    BY <1>2
  <2> QED BY <1>2, <2>1, Zenon DEF SameLines
<1>4. \A n \in 0 .. k : Lacking(t, 0 + n) = Lacking(u, 0 + n)
  <2> TAKE n \in 0 .. k
  <2>1. 0 + n # Len(t.lines) /\ 0 + n # Len(u.lines)
    BY <1>1
  <2> QED BY <2>1 DEF Lacking
<1>5. 0 + k <= Len(t.lines) /\ 0 + k <= Len(u.lines) /\ 0 \in Nat
  BY <1>1
<1> QED BY <1>3, <1>4, <1>5 DEF SamePart, SameLines

LEMMA SameSuffix ==
  ASSUME NEW t \in Text, NEW u \in Text, NEW f, NEW e, Changed(t, u, f, e),
         NEW g \in Nat, e <= g, g < Len(t.lines)
  PROVE  SamePart(t, g, u, g + Longer(t, u), Len(t.lines) - g)
<1> DEFINE m == Len(t.lines)
           n == Len(u.lines)
           x == n - m
           d == m - g
<1>1. m \in Nat /\ n \in Nat
  BY DEF Text
<1>2. /\ SameLines(t.lines, e, u.lines, e + x, m - e) /\ e \in Nat
      /\ e < m => u.ended = t.ended
  BY DEF Changed, Longer
<1>3. /\ e + x \in Nat /\ m - e \in Nat
      /\ \A k \in 1 .. m - e : t.lines[e + k] = u.lines[e + x + k]
  BY <1>2 DEF SameLines
<1> HIDE DEF m, n
<1>a. e + x \in Nat /\ e \in Nat
  BY <1>2, <1>3
<1>b. g < m
  BY DEF m
<1>4. e < m /\ x \in Int /\ g + x \in Nat /\ d \in Nat /\ g + d <= m /\ (g + x) + d <= n
  BY <1>1, <1>a, <1>b
<1>5. ASSUME NEW k \in 1 .. d PROVE t.lines[g + k] = u.lines[(g + x) + k]
  <2>1. (g - e) + k \in 1 .. m - e /\ e + ((g - e) + k) = g + k /\ e + x + ((g - e) + k) = (g + x) + k
    BY <1>1, <1>a, <1>b, <1>4
  <2> QED BY <1>3, <2>1, Zenon
<1>6. ASSUME NEW k \in 0 .. d PROVE Lacking(t, g + k) = Lacking(u, (g + x) + k)
  <2>1. u.ended = t.ended
    BY <1>2, <1>4
  <2>2. g + k = m <=> (g + x) + k = n
    BY <1>1, <1>4
  <2>3. g + k = m => g + k > 0 /\ (g + x) + k > 0
    <3>1. CASE k = 0
      BY <1>1, <1>b, <3>1
    <3>2. CASE k > 0
      BY <1>4, <3>2
    <3> QED BY <1>4, <3>1, <3>2
  <2>4. Lacking(t, g + k) = (IF g + k > 0 /\ g + k = m /\ ~ t.ended THEN 1 ELSE 0)
    BY DEF Lacking, m
  <2>5. Lacking(u, (g + x) + k) = (IF (g + x) + k > 0 /\ (g + x) + k = n /\ ~ u.ended THEN 1 ELSE 0)
    BY DEF Lacking, n
  <2> QED BY <2>1, <2>2, <2>3, <2>4, <2>5
<1>7. SameLines(t.lines, g, u.lines, g + x, d)
  BY <1>4, <1>5 DEF SameLines, m, n
<1> QED BY <1>6, <1>7 DEF SamePart, m, n, Longer

\* The lines between two lines are a text, and a part of the text.
LEMMA SliceIsPart ==
  ASSUME NEW u \in Text, NEW f \in Nat, NEW to \in Nat, f < to, to <= Len(u.lines)
  PROVE  /\ Slice(u, f, to) \in Text /\ Len(Slice(u, f, to).lines) = to - f
         /\ SamePart(Slice(u, f, to), 0, u, f, to - f)
<1> DEFINE s == Slice(u, f, to)
           d == to - f
           n == Len(u.lines)
<1>1. u.lines \in Seq(Line) /\ n \in Nat /\ u.ended \in BOOLEAN
  BY DEF Text
<1>2. s.lines = SubSeq(u.lines, f + 1, to) /\ s.ended = (to < n \/ u.ended)
      /\ s = [lines |-> s.lines, ended |-> s.ended]
  BY DEF Slice
<1> HIDE DEF s, n
<1>3. s.lines \in Seq(Line) /\ Len(s.lines) = d /\ \A k \in 1 .. d : s.lines[k] = u.lines[f + k]
  <2>1. Len(SubSeq(u.lines, f + 1, to)) = d /\ \A k \in 1 .. d : SubSeq(u.lines, f + 1, to)[k] = u.lines[f + k]
    BY <1>1, Extract DEF n
  <2>2. SubSeq(u.lines, f + 1, to) \in Seq(Line)
    BY <1>1
  <2> QED BY <1>2, <2>1, <2>2
<1>4. d \in Nat /\ d > 0 /\ d \in 1 .. d /\ f + d = to /\ f + d <= n
  BY <1>1 DEF n
<1>5. IsText(s)
  <2> SUFFICES ASSUME ~ s.ended
               PROVE  s.lines # <<>> /\ LineLength(s.lines[Len(s.lines)], LeafUnits) > 1
    BY DEF IsText
  <2>a. to <= n /\ n \in Nat
    BY <1>1 DEF n
  <2>b. ~ (to < n) /\ ~ u.ended
    BY <1>2
  <2>1. to = n /\ ~ u.ended
    BY <2>a, <2>b
  <2>2. LineLength(u.lines[n], LeafUnits) > 1
    BY <2>1 DEF Text, IsText, n
  <2>3. s.lines[d] = u.lines[n]
    BY <1>3, <1>4, <2>1
  <2>4. s.lines # <<>>
    BY <1>3, <1>4
  <2> QED BY <1>3, <2>2, <2>3, <2>4
<1>6. s.ended \in BOOLEAN
  BY <1>1, <1>2
<1>7. s \in Text
  BY <1>2, <1>3, <1>5, <1>6 DEF Text
<1>8. SameLines(s.lines, 0, u.lines, f, d)
  <2>1. \A k \in 1 .. d : s.lines[0 + k] = u.lines[f + k]
    BY <1>3, <1>4
  <2>2. 0 \in Nat /\ d \in Nat /\ 0 + d <= Len(s.lines) /\ f + d <= n
    BY <1>3, <1>4
  <2> QED BY <2>1, <2>2 DEF SameLines, n
<1>9. ASSUME NEW k \in 0 .. d PROVE Lacking(s, 0 + k) = Lacking(u, f + k)
  <2>1. 0 + k = k /\ (f + k = n <=> k = d /\ to = n) /\ (k = d => k > 0 /\ f + k > 0)
        /\ (to < n <=> to # n)
    BY <1>1, <1>4
  <2>2. Lacking(s, k) = (IF k > 0 /\ k = d /\ ~ s.ended THEN 1 ELSE 0)
    BY <1>3 DEF Lacking
  <2>3. Lacking(u, f + k) = (IF f + k > 0 /\ f + k = n /\ ~ u.ended THEN 1 ELSE 0)
    BY DEF Lacking, n
  <2> QED BY <1>2, <2>1, <2>2, <2>3
<1>10. SamePart(s, 0, u, f, d)
  BY <1>8, <1>9 DEF SamePart
<1> QED BY <1>3, <1>7, <1>10 DEF s

LEMMA MiddleLaid ==
  ASSUME NEW u \in Text, NEW f \in Nat, NEW to \in Nat, f < to, to <= Len(u.lines)
  PROVE  Laid(u, Middle(u, f, to), f, to)
<1> DEFINE s == Slice(u, f, to)
           bs == FullParse(s)
           d == to - f
<1>1. s \in Text /\ Len(s.lines) = d /\ SamePart(s, 0, u, f, d)
  BY SliceIsPart
<1> HIDE DEF s, d
<1>2. Laid(s, bs, 0, d)
  BY <1>1, FullParseLaid
<1> HIDE DEF bs
<1>3. 0 + d = d /\ f + d = to /\ f - 0 = f /\ d \in Nat
  BY DEF d
<1>4. Laid(u, Moved(bs, ByteAt(u, f) - ByteAt(s, 0), UnitAt(u, f) - UnitAt(s, 0), f - 0), f, f + d)
  <2>1. Laid(s, bs, 0, 0 + d)
    BY <1>2, <1>3
  <2> QED BY <1>1, <2>1, MovedLaid
<1>5. ByteAt(s, 0) = 0 /\ UnitAt(s, 0) = 0
  BY <1>1, OffsetStarts DEF ByteAt, UnitAt, Lengths
<1>6. f \in 0 .. Len(u.lines)
  BY DEF Text
<1>7. ByteAt(u, f) \in Nat /\ UnitAt(u, f) \in Nat
  BY <1>6, OffsetType DEF ByteAt, UnitAt, Lengths
<1>8. ByteAt(u, f) - ByteAt(s, 0) = ByteAt(u, f) /\ UnitAt(u, f) - UnitAt(s, 0) = UnitAt(u, f)
  BY <1>5, <1>7
<1>9. Middle(u, f, to) = Moved(bs, ByteAt(u, f), UnitAt(u, f), f)
  BY DEF Middle, bs, s
<1> QED BY <1>3, <1>4, <1>8, <1>9

(***************************************************************************)
(* Calm lines that stay where they are, or move together.                  *)
(***************************************************************************)
\* In the common part of two texts, the lines stand as they did.
LEMMA AtSame ==
  ASSUME NEW ls, NEW a, NEW ms, NEW b, NEW d, SameLines(ls, a, ms, b, d),
         NEW k \in Nat, a <= k, k < a + d
  PROVE  k + (b - a) \in Nat /\ At(ms, k + (b - a)) = At(ls, k)
<1>1. a \in Nat /\ b \in Nat /\ d \in Nat /\ \A n \in 1 .. d : ls[a + n] = ms[b + n]
  BY DEF SameLines
<1> DEFINE n == (k - a) + 1
           j == k + (b - a)
<1>2. n \in 1 .. d /\ a + n = k + 1 /\ b + n = j + 1 /\ j \in Nat
  BY <1>1
<1> HIDE DEF n, j
<1>3. ls[k + 1] = ms[j + 1]
  <2>1. ls[a + n] = ms[b + n]
    BY <1>1, <1>2
  <2> QED BY <1>2, <2>1, Zenon
<1>4. At(ms, j) = At(ls, k)
  BY <1>3, Zenon DEF At
<1> QED BY <1>2, <1>4 DEF j

LEMMA PartedMoved ==
  ASSUME NEW ls, NEW a, NEW ms, NEW b, NEW d, SameLines(ls, a, ms, b, d),
         NEW x \in Nat, a < x, x < a + d, Parted(ls, x)
  PROVE  Parted(ms, x + (b - a))
<1>1. a \in Nat /\ b \in Nat /\ d \in Nat /\ a + d <= Len(ls)
  BY DEF SameLines
<1> DEFINE c == b - a
<1>2. /\ x - 1 \in Nat /\ a <= x - 1 /\ x - 1 < a + d /\ a <= x /\ (x - 1) + c = (x + c) - 1
  BY <1>1
<1>3. At(ms, x + c) = At(ls, x)
  BY <1>2, AtSame
<1> DEFINE y == x - 1
<1>4. At(ms, y + c) = At(ls, y)
  <2>1. y \in Nat /\ a <= y /\ y < a + d
    BY <1>2
  <2> HIDE DEF y
  <2> QED BY <2>1, AtSame
<1>5. (x + c) - 1 = y + c
  BY <1>2
<1>6. ~ Joined(At(ls, y), At(ls, x))
  <2>1. x < Len(ls)
    BY <1>1 DEF SameLines
  <2> QED BY <2>1 DEF Parted
<1> HIDE DEF y, c
<1>7. ~ Joined(At(ms, (x + c) - 1), At(ms, x + c))
  BY <1>3, <1>4, <1>5, <1>6, Zenon
<1> QED BY <1>7 DEF Parted, c

LEMMA RuledMoved ==
  ASSUME NEW ls, NEW a, NEW ms, NEW b, NEW d, SameLines(ls, a, ms, b, d), Parted(ms, b + d),
         NEW x, Ruled(ls, x), x.first \in Nat, x.last \in Nat,
         a <= x.first, x.first < x.last, x.last <= a + d,
         NEW y, y.kind = x.kind, y.first = x.first + (b - a), y.last = x.last + (b - a)
  PROVE  Ruled(ms, y)
<1> DEFINE c == b - a
           p == x.first
           q == x.last
           r == q - 1
<1>1. a \in Nat /\ b \in Nat /\ d \in Nat
  BY DEF SameLines
<1>2. /\ p \in Nat /\ q \in Nat /\ r \in Nat /\ a <= p /\ p < q /\ q <= a + d
      /\ a <= r /\ r < a + d /\ p < a + d
  BY <1>1
<1>3. y.first = p + c /\ y.last = q + c /\ y.kind = x.kind /\ (q + c) - 1 = r + c
  BY <1>1
<1> HIDE DEF c, p, q, r
<1>4. At(ms, p + c) = At(ls, p) /\ At(ms, r + c) = At(ls, r)
  BY <1>2, AtSame DEF c
<1>5. x.kind = KindOf(At(ls, p), At(ls, r)) /\ \A k \in p + 1 .. q - 1 : Joined(At(ls, k - 1), At(ls, k))
  BY DEF Ruled, Inner, p, q, r
<1>6. y.kind = KindOf(At(ms, y.first), At(ms, y.last - 1))
  BY <1>3, <1>4, <1>5, Zenon
<1>7. ASSUME NEW k \in y.first + 1 .. y.last - 1 PROVE Joined(At(ms, k - 1), At(ms, k))
  <2>0. c \in Int /\ p + c \in Nat /\ q + c \in Nat
    BY <1>1, <1>2 DEF c
  <2> DEFINE j == k - c
             i2 == j - 1
  <2>a. k \in (p + c) + 1 .. (q + c) - 1
    BY <1>3, Zenon
  <2>1. k \in (p + c) + 1 .. (q + c) - 1 /\ k \in Int
    BY <2>0, <2>a
  <2>2. /\ j \in p + 1 .. q - 1 /\ j \in Nat /\ i2 \in Nat /\ a <= j /\ j < a + d /\ a <= i2 /\ i2 < a + d
        /\ j + c = k /\ i2 + c = k - 1
    BY <1>1, <1>2, <2>0, <2>1
  <2>3. Joined(At(ls, i2), At(ls, j))
    BY <1>5, <2>2
  <2> HIDE DEF j, i2
  <2>4. At(ms, j + c) = At(ls, j) /\ At(ms, i2 + c) = At(ls, i2)
    BY <2>2, AtSame DEF c
  <2> QED BY <2>2, <2>3, <2>4, Zenon
<1>8. Parted(ms, y.last)
  <2>1. CASE q = a + d
    <3>1. q + c = b + d
      BY <1>1, <2>1 DEF c
    <3> QED BY <1>3, <3>1, Zenon
  <2>2. CASE q # a + d
    <3>1. a < q /\ q < a + d
      BY <1>1, <1>2, <2>2
    <3>2. Parted(ls, q)
      BY DEF Ruled, q
    <3>3. Parted(ms, q + c)
      BY <1>2, <3>1, <3>2, PartedMoved DEF c
    <3> QED BY <1>3, <3>3
  <2> QED BY <2>1, <2>2
<1> QED BY <1>6, <1>7, <1>8 DEF Ruled, Inner

\* Blocks that are moved with their lines stay as the lines tell.
LEMMA MovedRuled ==
  ASSUME NEW t \in Text, NEW u \in Text, NEW a, NEW b, NEW d, SamePart(t, a, u, b, d),
         NEW bs, Laid(t, bs, a, a + d), AllRuled(t, bs), Parted(u.lines, b + d)
  PROVE  AllRuled(u, Moved(bs, ByteAt(u, b) - ByteAt(t, a), UnitAt(u, b) - UnitAt(t, a), b - a))
<1> DEFINE bytes == ByteAt(u, b) - ByteAt(t, a)
           units == UnitAt(u, b) - UnitAt(t, a)
           ms == Moved(bs, bytes, units, b - a)
<1>1. bs \in Seq(Placed(t)) /\ Chain(bs, a, a + d) /\ Len(bs) \in Nat /\ DOMAIN bs = 1 .. Len(bs)
  BY DEF Laid
<1>2. SameLines(t.lines, a, u.lines, b, d)
  BY DEF SamePart
<1> HIDE DEF bytes, units
<1>3. ms = [n \in 1 .. Len(bs) |-> Shift(bs[n], bytes, units, b - a)]
  BY <1>1 DEF Moved
<1> HIDE DEF ms
<1>4. Len(ms) = Len(bs)
  BY <1>1, <1>3
<1>5. ASSUME NEW n \in 1 .. Len(bs) PROVE Ruled(u.lines, ms[n])
  <2> DEFINE x == bs[n]
             y == ms[n]
             c == [kind |-> x.kind, first |-> x.first, last |-> x.last]
  <2>1. c \in Block /\ x = Node(t, c)
    <3>1. x \in Placed(t)
      BY <1>1
    <3> QED BY <3>1, PlacedFields
  <2>2. x.first \in Nat /\ x.last \in Nat /\ a <= x.first /\ x.first < x.last /\ x.last <= a + d
    BY <1>1, ChainBounds
  <2>3. c.first = x.first /\ c.last = x.last /\ c.kind = x.kind
    OBVIOUS
  <2>4. Ruled(t.lines, x)
    BY DEF AllRuled
  <2>5. Within(c, a, d)
    BY <2>2, <2>3 DEF Within
  <2> HIDE DEF c, x
  <2>6. Shift(Node(t, c), bytes, units, b - a) = Node(u, Displaced(c, b - a))
    BY <2>1, <2>5, MovedNode DEF bytes, units
  <2>7. y = Node(u, Displaced(c, b - a))
    BY <1>3, <2>1, <2>6 DEF x
  <2>8. y.kind = c.kind /\ y.first = c.first + (b - a) /\ y.last = c.last + (b - a)
    <3> DEFINE e == Displaced(c, b - a)
    <3>1. e.kind = c.kind /\ e.first = c.first + (b - a) /\ e.last = c.last + (b - a)
      BY DEF Displaced
    <3>2. y = Node(u, e)
      BY <2>7
    <3> HIDE DEF e, y
    <3>3. y.kind = e.kind /\ y.first = e.first /\ y.last = e.last
      BY <3>2 DEF Node
    <3> QED BY <3>1, <3>3, Zenon
  <2> HIDE DEF y
  <2>9. y.kind = x.kind /\ y.first = x.first + (b - a) /\ y.last = x.last + (b - a)
    BY <2>3, <2>8
  <2>10. Ruled(u.lines, y)
    BY <1>2, <2>2, <2>4, <2>9, RuledMoved
  <2> QED BY <2>10 DEF y
<1>6. AllRuled(u, ms)
  BY <1>4, <1>5 DEF AllRuled
<1> QED BY <1>6 DEF ms, bytes, units

LEMMA StillRuled ==
  ASSUME NEW t \in Text, NEW u \in Text, NEW d, SamePart(t, 0, u, 0, d),
         NEW bs, Laid(t, bs, 0, d), AllRuled(t, bs), Parted(u.lines, d)
  PROVE  AllRuled(u, bs)
<1>1. bs \in Seq(Placed(t)) /\ Chain(bs, 0, d) /\ Len(bs) \in Nat
  BY DEF Laid
<1>2. SameLines(t.lines, 0, u.lines, 0, d) /\ d \in Nat
  BY DEF SamePart, SameLines
<1>3. ASSUME NEW n \in 1 .. Len(bs) PROVE Ruled(u.lines, bs[n])
  <2> DEFINE x == bs[n]
             z == 0
  <2>1. x.first \in Nat /\ x.last \in Nat /\ x.first < x.last /\ x.last <= d
    BY <1>1, ChainBounds
  <2>2. Ruled(t.lines, x)
    BY DEF AllRuled
  <2> HIDE DEF x
  <2>3. /\ x.first = x.first + (z - z) /\ x.last = x.last + (z - z) /\ z <= x.first /\ x.last <= z + d
        /\ z + d = d
    BY <1>2, <2>1
  <2>4. SameLines(t.lines, z, u.lines, z, d) /\ Parted(u.lines, z + d)
    BY <1>2, <2>3
  <2> HIDE DEF z
  <2>5. Ruled(u.lines, x)
    BY <2>1, <2>2, <2>3, <2>4, RuledMoved
  <2> QED BY <2>5 DEF x
<1> QED BY <1>3 DEF AllRuled

LEMMA MiddleRuled ==
  ASSUME NEW u \in Text, u.lines \in Seq(CalmLine), NEW f \in Nat, NEW to \in Nat, f < to,
         to <= Len(u.lines), Parted(u.lines, to)
  PROVE  AllRuled(u, Middle(u, f, to))
<1> DEFINE s == Slice(u, f, to)
           bs == FullParse(s)
           d == to - f
<1>1. s \in Text /\ Len(s.lines) = d /\ SamePart(s, 0, u, f, d)
  BY SliceIsPart
<1>2. s.lines \in Seq(CalmLine)
  <2>1. s.lines = SubSeq(u.lines, f + 1, to)
    BY DEF Slice
  <2>2. SubSeq(u.lines, f + 1, to) \in Seq(CalmLine)
    <3> DEFINE ls == u.lines
    <3>1. ls \in Seq(CalmLine) /\ to <= Len(ls)
      OBVIOUS
    <3> HIDE DEF ls
    <3> QED BY <3>1, Extract
  <2> QED BY <2>1, <2>2
<1> HIDE DEF s, d
<1>3. Laid(s, bs, 0, d) /\ AllRuled(s, bs)
  BY <1>1, <1>2, FullParseLaid, FullParseRuled
<1> HIDE DEF bs
<1>4. 0 + d = d /\ f + d = to /\ f - 0 = f /\ d \in Nat
  BY DEF d
<1>5. AllRuled(u, Moved(bs, ByteAt(u, f) - ByteAt(s, 0), UnitAt(u, f) - UnitAt(s, 0), f - 0))
  <2>1. Laid(s, bs, 0, 0 + d) /\ Parted(u.lines, f + d)
    BY <1>3, <1>4
  <2> QED BY <1>1, <1>3, <2>1, MovedRuled
<1>6. ByteAt(s, 0) = 0 /\ UnitAt(s, 0) = 0
  BY <1>1, OffsetStarts DEF ByteAt, UnitAt, Lengths
<1>7. f \in 0 .. Len(u.lines)
  BY DEF Text
<1>8. ByteAt(u, f) \in Nat /\ UnitAt(u, f) \in Nat
  BY <1>7, OffsetType DEF ByteAt, UnitAt, Lengths
<1>9. ByteAt(u, f) - ByteAt(s, 0) = ByteAt(u, f) /\ UnitAt(u, f) - UnitAt(s, 0) = UnitAt(u, f)
  BY <1>6, <1>8
<1>10. Middle(u, f, to) = Moved(bs, ByteAt(u, f), UnitAt(u, f), f)
  BY DEF Middle, bs, s
<1> QED BY <1>4, <1>5, <1>9, <1>10

LEMMA ConcatRuled ==
  ASSUME NEW A, NEW u, NEW x \in Seq(A), NEW y \in Seq(A), AllRuled(u, x), AllRuled(u, y)
  PROVE  AllRuled(u, x \o y)
<1>1. /\ x \o y \in Seq(A) /\ Len(x \o y) = Len(x) + Len(y)
      /\ \A n \in 1 .. Len(x) + Len(y) : (x \o y)[n] = (IF n <= Len(x) THEN x[n] ELSE y[n - Len(x)])
  BY ConcatProperties
<1> DEFINE z == x \o y
<1> HIDE DEF z
<1>2. ASSUME NEW n \in 1 .. Len(z) PROVE Ruled(u.lines, z[n])
  <2>1. n \in 1 .. Len(x) + Len(y) /\ Len(x) \in Nat /\ Len(y) \in Nat
    BY <1>1 DEF z
  <2>2. CASE n <= Len(x)
    <3>1. n \in 1 .. Len(x) /\ z[n] = x[n]
      BY <1>1, <2>1, <2>2 DEF z
    <3> QED BY <3>1 DEF AllRuled
  <2>3. CASE ~ (n <= Len(x))
    <3>1. n - Len(x) \in 1 .. Len(y) /\ z[n] = y[n - Len(x)]
      BY <1>1, <2>1, <2>3 DEF z
    <3> QED BY <3>1 DEF AllRuled
  <2> QED BY <2>2, <2>3
<1> QED BY <1>2 DEF AllRuled, z

(***************************************************************************)
(* Re-parsing a range.                                                     *)
(***************************************************************************)
Good(prev, t) ==
  /\ Laid(t, prev.blocks, 0, Len(t.lines))
  /\ prev.lineCount = Len(t.lines)
  /\ prev.byteLength = ByteLength(t) /\ prev.unitLength = UnitLength(t)

\* The range takes in all that changed, and a line on each side.
Located(bs, range, f, e) ==
  /\ range.first \in 0 .. Len(bs) - 1 /\ range.last \in range.first + 1 .. Len(bs)
  /\ range.first > 0 => Cut(bs, 0, range.first) < f
  /\ range.last < Len(bs) => e < Cut(bs, 0, range.last)

\* Where the range ends in the new text.
NewEnd(prev, t, u, range) == Cut(prev.blocks, 0, range.last) + Longer(t, u)

LEMMA RangeEnd ==
  ASSUME NEW t \in Text, NEW u \in Text, NEW f, NEW e, Changed(t, u, f, e),
         NEW prev, Good(prev, t), NEW range, Located(prev.blocks, range, f, e)
  PROVE  LET to == NewEnd(prev, t, u, range)
             g  == Cut(prev.blocks, 0, range.last)
         IN  /\ g \in 0 .. Len(t.lines) /\ to \in 0 .. Len(u.lines)
             /\ range.last < Len(prev.blocks) => e <= g /\ g < Len(t.lines)
             /\ range.last = Len(prev.blocks) => g = Len(t.lines) /\ to = Len(u.lines)
             /\ prev.blocks[range.last].last = g
             /\ prev.blocks[range.last].byteEnd = ByteAt(t, g)
             /\ prev.blocks[range.last].unitEnd = UnitAt(t, g)
             /\ SliceEnd(prev, u, range) = ByteAt(u, to)
<1> DEFINE bs == prev.blocks
           q  == range.last
           g  == Cut(bs, 0, q)
           to == g + Longer(t, u)
           m  == Len(t.lines)
           n  == Len(u.lines)
<1>1. m \in Nat /\ n \in Nat /\ t.lines \in Seq(Line)
  BY DEF Text
<1>2. bs \in Seq(Placed(t)) /\ Chain(bs, 0, m) /\ Len(bs) \in Nat
  BY DEF Good, Laid
<1>3. q \in 1 .. Len(bs) /\ q \in 0 .. Len(bs) /\ (q < Len(bs) \/ q = Len(bs)) /\ q # 0
  BY <1>2 DEF Located
<1>4. g \in Nat /\ g <= m /\ (q < Len(bs) => g < m) /\ (q = Len(bs) => g = m)
  <2>1. 0 \in Nat /\ bs \in Seq(Placed(t)) /\ m \in Nat /\ q \in 0 .. Len(bs) /\ Chain(bs, 0, m)
    BY <1>1, <1>2, <1>3
  <2> HIDE DEF bs, m, q
  <2> QED BY <2>1, CutType
<1>5. q < Len(bs) => e <= g
  BY <1>4 DEF Located, Changed
<1>6. bs[q].last = g /\ bs[q].byteEnd = ByteAt(t, g) /\ bs[q].unitEnd = UnitAt(t, g)
  <2>1. bs[q] \in Placed(t)
    BY <1>2, <1>3
  <2>2. g = bs[q].last
    BY <1>3 DEF Cut
  <2>3. bs[q].last = g
    BY <2>2
  <2>4. bs[q].byteEnd = ByteAt(t, bs[q].last) /\ bs[q].unitEnd = UnitAt(t, bs[q].last)
    BY <2>1, PlacedFields
  <2> QED BY <2>3, <2>4, Zenon
<1>7. e \in Nat /\ e <= m /\ e + (n - m) \in Nat
  BY DEF Changed, SameLines, Longer
<1> HIDE DEF bs, q, g, m, n
<1>8. to = g + (n - m)
  BY DEF Longer, m, n
<1>9. to \in 0 .. n /\ (q = Len(bs) => to = n)
  BY <1>1, <1>3, <1>4, <1>5, <1>7, <1>8
<1> HIDE DEF to
<1>10. ByteAt(t, g) + ByteLength(u) - ByteLength(t) = ByteAt(u, to)
  <2>0. /\ ByteAt(t, g) \in Nat /\ ByteLength(t) \in Nat /\ ByteLength(u) \in Nat
        /\ ByteAt(u, to) \in Nat
    <3>1. g \in 0 .. m /\ m \in 0 .. m /\ n \in 0 .. n
      BY <1>1, <1>4
    <3> QED BY <1>9, <3>1, LineAtOffset DEF ByteLength, m, n
  <2>1. CASE q = Len(bs)
    <3>1. ByteAt(t, g) = ByteLength(t) /\ ByteAt(u, to) = ByteLength(u)
      BY <1>4, <1>9, <2>1 DEF ByteLength, m, n
    <3> QED BY <2>0, <3>1
  <2>2. CASE q < Len(bs)
    <3>1. SamePart(t, g, u, to, m - g)
      <4>1. e <= g /\ g < m /\ g \in Nat
        BY <1>4, <1>5, <2>2
      <4> QED BY <4>1, SameSuffix DEF m, to
    <3>2. m - g \in 0 .. m - g /\ g + (m - g) = m /\ to + (m - g) = n
      BY <1>1, <1>4, <1>8
    <3>3. Offset(t, g + (m - g), LeafBytes) - Offset(t, g, LeafBytes)
            = Offset(u, to + (m - g), LeafBytes) - Offset(u, to, LeafBytes)
      <4>1. LeafBytes \in Lengths
        BY DEF Lengths
      <4>2. m - g \in 0 .. m - g
        BY <3>2
      <4> DEFINE d == m - g
      <4> HIDE DEF d
      <4>3. Offset(t, g + d, LeafBytes) - Offset(t, g, LeafBytes)
              = Offset(u, to + d, LeafBytes) - Offset(u, to, LeafBytes)
        BY <3>1, <4>1, <4>2, OffsetsParallel DEF d
      <4> QED BY <4>3 DEF d
    <3>4. ByteLength(t) - ByteAt(t, g) = ByteLength(u) - ByteAt(u, to)
      BY <3>2, <3>3 DEF ByteAt, ByteLength, m, n
    <3> QED BY <2>0, <3>4
  <2> QED BY <1>3, <2>1, <2>2
<1>11. SliceEnd(prev, u, range) = ByteAt(u, to)
  <2>1. /\ LineEndFrom(u, ByteAt(u, to)) = ByteAt(u, to)
        /\ ByteAt(u, to) \in Nat /\ ByteAt(u, to) <= ByteLength(u)
    BY <1>9, LineAtOffset DEF n
  <2>2. ByteLength(u) \in Nat
    <3>1. n \in 0 .. n
      BY <1>1
    <3> QED BY <3>1, LineAtOffset DEF ByteLength, n
  <2>3. prev.blocks[range.last].byteEnd + ByteLength(u) - prev.byteLength = ByteAt(u, to)
    BY <1>6, <1>10 DEF Good, bs, q
  <2> DEFINE x == ByteAt(u, to)
  <2> HIDE DEF x
  <2>4. Max({x, 0}) = x
    <3>1. x \in Nat
      BY <2>1 DEF x
    <3> QED BY <3>1, GreatestOfTwo
  <2>5. Min({x, ByteLength(u)}) = x
    BY <2>1, <2>2, LeastOfTwo DEF x
  <2>6. LineEndFrom(u, x) = x
    BY <2>1 DEF x
  <2>7. SliceEnd(prev, u, range) = x
    BY <2>3, <2>4, <2>5, <2>6, Zenon DEF SliceEnd, x
  <2> QED BY <2>7 DEF x
<1>12. g \in 0 .. m
  BY <1>1, <1>4
<1> QED BY <1>4, <1>5, <1>6, <1>9, <1>11, <1>12, Zenon DEF NewEnd, to, bs, q, g, m, n

FirstByte(prev, range) == prev.blocks[range.first + 1].byteStart

\* Where a range starts: nothing has changed up to it.
LEMMA RangeStart ==
  ASSUME NEW t \in Text, NEW u \in Text, NEW f, NEW e, Changed(t, u, f, e),
         NEW prev, Good(prev, t), NEW range, Located(prev.blocks, range, f, e),
         NEW to \in 0 .. Len(u.lines),
         FirstByte(prev, range) < ByteAt(u, to)
  PROVE  LET k == Cut(prev.blocks, 0, range.first)
         IN  /\ k \in Nat /\ k < to /\ SamePart(t, 0, u, 0, k)
             /\ LinesAt(u, FirstByte(prev, range)) = {k}
<1> DEFINE bs == prev.blocks
           p  == range.first
           k  == Cut(bs, 0, p)
           m  == Len(t.lines)
           n  == Len(u.lines)
<1>1. m \in Nat /\ n \in Nat
  BY DEF Text
<1>2. bs \in Seq(Placed(t)) /\ Chain(bs, 0, m) /\ Len(bs) \in Nat
  BY DEF Good, Laid
<1>3. p \in 0 .. Len(bs) - 1 /\ k <= f
  <2>1. p \in 0 .. Len(bs) - 1 /\ (p > 0 => k < f) /\ f \in Nat
    BY DEF Located, Changed
  <2>2. p = 0 => k = 0
    BY DEF Cut
  <2>3. p \in 0 .. Len(bs) /\ 0 \in Nat
    BY <1>2, <2>1
  <2>4. k \in Nat
    <3> HIDE DEF bs, p, m
    <3> QED BY <1>1, <1>2, <2>3, CutType
  <2> HIDE DEF k, bs, p
  <2> QED BY <1>2, <2>1, <2>2, <2>4
<1>4. k \in Nat /\ k < m /\ k = bs[p + 1].first
  <2>1. 0 \in Nat /\ bs \in Seq(Placed(t)) /\ m \in Nat /\ p \in 0 .. Len(bs) /\ p < Len(bs) /\ Chain(bs, 0, m)
    BY <1>1, <1>2, <1>3
  <2> HIDE DEF bs, m, p
  <2> QED BY <2>1, CutType
<1>5. bs[p + 1].byteStart = ByteAt(t, k)
  <2>1. p + 1 \in 1 .. Len(bs)
    BY <1>2, <1>3
  <2>2. bs[p + 1] \in Placed(t)
    BY <1>2, <2>1
  <2> QED BY <1>4, <2>2, PlacedFields
<1>6. /\ f \in Nat /\ f <= n
      /\ SameLines(t.lines, 0, u.lines, 0, f)
  BY DEF Changed, SameLines
<1> HIDE DEF bs, p, k, m, n
<1>7. k <= n
  BY <1>1, <1>3, <1>4, <1>6
<1>8. ByteAt(t, k) = Sum(t.lines, LeafBytes)[k] /\ ByteAt(u, k) = Sum(u.lines, LeafBytes)[k] - Lacking(u, k)
  <2>1. k \in 0 .. m /\ k \in 0 .. n /\ LeafBytes \in Lengths
    BY <1>1, <1>4, <1>7 DEF Lengths
  <2>2. /\ Offset(t, k, LeafBytes) = Sum(t.lines, LeafBytes)[k] - Lacking(t, k)
        /\ Offset(u, k, LeafBytes) = Sum(u.lines, LeafBytes)[k] - Lacking(u, k)
    BY <2>1, OffsetStarts DEF m, n
  <2>3. Lacking(t, k) = 0
    BY <1>1, <1>4 DEF Lacking, m
  <2>4. Sum(t.lines, LeafBytes)[k] \in Nat
    BY <2>1, SumSteps DEF Text, m
  <2> QED BY <2>2, <2>3, <2>4 DEF ByteAt
<1>9. Sum(t.lines, LeafBytes)[k] = Sum(u.lines, LeafBytes)[k]
  <2>1. k \in 0 .. f /\ LeafBytes \in Lengths /\ t.lines \in Seq(Line) /\ u.lines \in Seq(Line)
    BY <1>3, <1>4, <1>6 DEF Lengths, Text
  <2>2. Sum(t.lines, LeafBytes)[0 + k] - Sum(t.lines, LeafBytes)[0]
          = Sum(u.lines, LeafBytes)[0 + k] - Sum(u.lines, LeafBytes)[0]
    BY <1>6, <2>1, SumsParallel
  <2>3. /\ Sum(t.lines, LeafBytes)[0] = 0 /\ Sum(u.lines, LeafBytes)[0] = 0
        /\ Sum(t.lines, LeafBytes)[k] \in Nat /\ Sum(u.lines, LeafBytes)[k] \in Nat
    <3>1. k \in 0 .. m /\ k \in 0 .. n
      BY <1>1, <1>4, <1>7
    <3> QED BY <2>1, <3>1, SumSteps DEF m, n
  <2>4. 0 + k = k
    BY <1>4
  <2> QED BY <2>2, <2>3, <2>4
<1>10. /\ ByteAt(t, k) \in Nat /\ ByteAt(u, k) \in Nat /\ ByteAt(u, to) \in Nat
       /\ ByteAt(u, k) <= ByteAt(t, k) /\ ByteAt(u, k) < ByteAt(u, to)
  <2>1. ByteAt(t, k) \in Nat /\ ByteAt(u, k) \in Nat /\ ByteAt(u, to) \in Nat
    <3>1. k \in 0 .. m /\ k \in 0 .. n
      BY <1>1, <1>4, <1>7
    <3> QED BY <3>1, LineAtOffset DEF m, n
  <2>2. Lacking(u, k) \in Nat
    BY DEF Lacking
  <2>3. ByteAt(t, k) < ByteAt(u, to)
    BY <1>5 DEF bs, p, FirstByte
  <2>4. ByteAt(u, k) = ByteAt(t, k) - Lacking(u, k)
    BY <1>8, <1>9
  <2> QED BY <2>1, <2>2, <2>3, <2>4
<1>11. k < to /\ to <= n
  <2>1. k \in 0 .. n /\ LeafBytes \in Lengths /\ to \in Nat /\ to <= n
    BY <1>1, <1>4, <1>7 DEF Lengths, n
  <2>2. k = to => FALSE
    BY <1>10
  <2>3. to < k => FALSE
    <3> SUFFICES ASSUME to < k PROVE FALSE
      OBVIOUS
    <3>1. ByteAt(u, to) < ByteAt(u, k)
      BY <2>1, OffsetIncreases DEF ByteAt, n
    <3> QED BY <1>10, <3>1
  <2> QED BY <1>4, <2>1, <2>2, <2>3
<1>12. SamePart(t, 0, u, 0, k)
  <2>1. k \in Nat /\ k <= f /\ k < Len(t.lines) /\ k < Len(u.lines)
    <3>1. to \in Nat
      BY <1>1 DEF n
    <3> QED BY <1>1, <1>3, <1>4, <1>11, <3>1 DEF m, n
  <2> QED BY <2>1, SamePrefix
<1>13. ByteAt(u, k) = ByteAt(t, k)
  <2>1. Lacking(u, k) = 0
    <3>1. k # n
      BY <1>1, <1>4, <1>11 DEF n
    <3> QED BY <3>1 DEF Lacking, n
  <2>2. ByteAt(u, k) = ByteAt(t, k) - Lacking(u, k)
    BY <1>8, <1>9
  <2> QED BY <1>10, <2>1, <2>2
<1>14. LinesAt(u, bs[p + 1].byteStart) = {k}
  <2>1. k \in 0 .. n
    BY <1>1, <1>4, <1>7
  <2>2. LinesAt(u, ByteAt(u, k)) = {k}
    BY <2>1, LineAtOffset DEF n
  <2> QED BY <1>5, <1>13, <2>2
<1> QED BY <1>4, <1>11, <1>12, <1>14 DEF k, bs, p, FirstByte

\* The blocks behind the range, moved.
LEMMA SuffixLaid ==
  ASSUME NEW t \in Text, NEW u \in Text, NEW f, NEW e, Changed(t, u, f, e),
         NEW prev, Good(prev, t), NEW range, Located(prev.blocks, range, f, e)
  PROVE  LET bs == prev.blocks
             q  == range.last
             to == NewEnd(prev, t, u, range)
             suffix == Suffix(prev, u, range, to)
         IN  /\ Laid(u, suffix, to, Len(u.lines))
             /\ Len(suffix) = Len(bs) - q
             /\ \A n \in 1 .. Len(bs) - q : SameBlock(suffix[n], bs[q + n])
             /\ AllRuled(t, bs) => AllRuled(u, suffix)
<1> DEFINE bs == prev.blocks
           q  == range.last
           g  == Cut(bs, 0, q)
           to == NewEnd(prev, t, u, range)
           m  == Len(t.lines)
           n  == Len(u.lines)
           cs == SubSeq(bs, q + 1, Len(bs))
           suffix == Suffix(prev, u, range, to)
<1>1. m \in Nat /\ n \in Nat
  BY DEF Text
<1>2. bs \in Seq(Placed(t)) /\ Chain(bs, 0, m) /\ Len(bs) \in Nat
  BY DEF Good, Laid
<1>3. q \in 0 .. Len(bs) /\ (q < Len(bs) \/ q = Len(bs)) /\ q \in Nat /\ q <= Len(bs)
  BY <1>2 DEF Located
<1>4. /\ g \in 0 .. m /\ to \in 0 .. n
      /\ q < Len(bs) => e <= g /\ g < m
      /\ q = Len(bs) => g = m /\ to = n
      /\ bs[q].last = g /\ bs[q].byteEnd = ByteAt(t, g) /\ bs[q].unitEnd = UnitAt(t, g)
  BY RangeEnd
<1>5. to = g + Longer(t, u)
  BY DEF NewEnd
<1>6. suffix = Moved(cs, ByteAt(u, to) - ByteAt(t, g), UnitAt(u, to) - UnitAt(t, g), to - g)
  BY <1>4, Zenon DEF Suffix
<1>7. cs \in Seq(Placed(t)) /\ Chain(cs, g, m)
  <2>1. 0 \in Nat /\ m \in Nat /\ Len(bs) \in q .. Len(bs)
    BY <1>1, <1>2, <1>3
  <2>2. cs \in Seq(Placed(t)) /\ Chain(cs, Cut(bs, 0, q), Cut(bs, 0, Len(bs)))
    <3> HIDE DEF bs, q, m
    <3> QED BY <1>2, <1>3, <2>1, ChainPart
  <2>3. Cut(bs, 0, Len(bs)) = m
    <3>1. Len(bs) \in 0 .. Len(bs)
      BY <1>2
    <3> HIDE DEF bs, m
    <3> QED BY <1>2, <2>1, <3>1, CutType
  <2> QED BY <2>2, <2>3
<1>8. Len(cs) = Len(bs) - q /\ \A k \in 1 .. Len(bs) - q : cs[k] = bs[q + k]
  <2> HIDE DEF bs, q
  <2> QED BY <1>2, <1>3, Extract
<1> HIDE DEF bs, q, g, to, m, n, cs, suffix
<1>9. Laid(t, cs, g, m)
  BY <1>7 DEF Laid
<1>r. AllRuled(t, bs) => AllRuled(t, cs)
  <2> SUFFICES ASSUME AllRuled(t, bs), NEW k \in 1 .. Len(cs) PROVE Ruled(t.lines, cs[k])
    BY DEF AllRuled
  <2>1. cs[k] = bs[q + k] /\ q + k \in 1 .. Len(bs)
    BY <1>2, <1>3, <1>8
  <2> QED BY <2>1 DEF AllRuled
<1>10. Laid(u, suffix, to, n) /\ Len(suffix) = Len(cs) /\ (AllRuled(t, bs) => AllRuled(u, suffix))
  <2>1. CASE q < Len(bs)
    <3>1. e <= g /\ g < m /\ g \in Nat /\ to \in Nat
      BY <1>1, <1>4, <2>1
    <3>2. SamePart(t, g, u, to, m - g)
      BY <1>5, <3>1, SameSuffix DEF m
    <3>3. g + (m - g) = m /\ to + (m - g) = n
      <4>1. to = g + (n - m)
        BY <1>5 DEF Longer, m, n
      <4> QED BY <1>1, <3>1, <4>1
    <3> DEFINE d == m - g
    <3>4. SamePart(t, g, u, to, d) /\ Laid(t, cs, g, g + d)
      BY <1>9, <3>2, <3>3
    <3>6. Parted(u.lines, to + d)
      BY <1>1, <3>3 DEF Parted, n
    <3> HIDE DEF d
    <3>7. AllRuled(t, bs) => AllRuled(u, suffix)
      BY <1>6, <1>r, <3>4, <3>6, MovedRuled
    <3>5. Laid(u, suffix, to, to + d) /\ Len(suffix) = Len(cs)
      BY <1>6, <3>4, MovedLaid
    <3> QED BY <3>3, <3>5, <3>7 DEF d
  <2>2. CASE q = Len(bs)
    <3>1. g = m /\ to = n
      BY <1>4, <2>2
    <3>2. cs = <<>>
      BY <1>7, <3>1 DEF Chain
    <3>3. suffix = <<>>
      BY <1>6, <3>2 DEF Moved
    <3>4. Chain(<<>>, to, n)
      BY <3>1 DEF Chain
    <3>5. AllRuled(u, suffix)
      BY <3>3 DEF AllRuled
    <3> QED BY <3>2, <3>3, <3>4, <3>5 DEF Laid
  <2> QED BY <1>3, <2>1, <2>2
<1>11. ASSUME NEW k \in 1 .. Len(bs) - q PROVE SameBlock(suffix[k], bs[q + k])
  <2>1. cs[k] = bs[q + k] /\ k \in DOMAIN cs
    BY <1>7, <1>8
  <2>2. suffix[k] = Shift(cs[k], ByteAt(u, to) - ByteAt(t, g), UnitAt(u, to) - UnitAt(t, g), to - g)
    BY <1>6, <2>1 DEF Moved
  <2>3. PICK c \in Block : cs[k] = Node(t, c)
    BY <1>7, <2>1 DEF Placed
  <2> DEFINE x == cs[k]
             bytes == ByteAt(u, to) - ByteAt(t, g)
             units == UnitAt(u, to) - UnitAt(t, g)
             y == Shift(x, bytes, units, to - g)
  <2>4. x = [kind |-> c.kind, first |-> c.first, last |-> c.last,
             byteStart |-> ByteAt(t, c.first), byteEnd |-> ByteAt(t, c.last),
             unitStart |-> UnitAt(t, c.first), unitEnd |-> UnitAt(t, c.last),
             body |-> SubSeq(t.lines, c.first + 1, c.last)]
    BY <2>3 DEF Node
  <2> HIDE DEF x, bytes, units
  <2>5. y.kind = x.kind /\ y.body = x.body
    <3> DEFINE xs == ByteAt(t, c.first)  ys == ByteAt(t, c.last)
               zs == UnitAt(t, c.first)  ws == UnitAt(t, c.last)
               body == SubSeq(t.lines, c.first + 1, c.last)
               p == c.first  r == c.last  kind == c.kind
               h == to - g
    <3>1. x = [kind |-> kind, first |-> p, last |-> r, byteStart |-> xs, byteEnd |-> ys,
               unitStart |-> zs, unitEnd |-> ws, body |-> body]
      BY <2>4, Zenon
    <3> HIDE DEF xs, ys, zs, ws, body, p, r, kind, h
    <3>2. Shift(x, bytes, units, h)
            = [kind |-> kind, first |-> p + h, last |-> r + h, byteStart |-> xs + bytes,
               byteEnd |-> ys + bytes, unitStart |-> zs + units, unitEnd |-> ws + units, body |-> body]
      BY <3>1, ShiftFields
    <3>3. y = Shift(x, bytes, units, h)
      BY DEF h
    <3> QED BY <3>1, <3>2, <3>3
  <2> QED BY <2>1, <2>2, <2>5, Zenon DEF x, y, bytes, units, SameBlock
<1> QED BY <1>8, <1>10, <1>11 DEF bs, q, to, n, suffix

\* What a re-parse of the range returns.
Spliced(prev, u, range, middle, suffix) ==
  Result(SubSeq(prev.blocks, 1, range.first) \o middle \o suffix, Len(u.lines),
         range.first, range.first + Len(middle))

\* With calm lines the blocks are still those the lines tell.
StaysRuled(t, bs, u, cs) == u.lines \in Seq(CalmLine) /\ AllRuled(t, bs) => AllRuled(u, cs)

Outcome(prev, t, u, range, r) ==
  \/ r = FullResult(u)
  \/ \E middle, suffix \in Seq(Placed(u)) :
       /\ r = Spliced(prev, u, range, middle, suffix)
       /\ SubSeq(prev.blocks, 1, range.first) \in Seq(Placed(u))
       /\ Laid(u, SubSeq(prev.blocks, 1, range.first) \o middle \o suffix, 0, Len(u.lines))
       /\ Len(suffix) = Len(prev.blocks) - range.last
       /\ \A n \in 1 .. Len(suffix) : SameBlock(suffix[n], prev.blocks[range.last + n])
       /\ StaysRuled(t, prev.blocks, u, SubSeq(prev.blocks, 1, range.first) \o middle \o suffix)

LEMMA ReparseOutcome ==
  ASSUME NEW t \in Text, NEW u \in Text, NEW f, NEW e, Changed(t, u, f, e),
         NEW prev, Good(prev, t), NEW range, Located(prev.blocks, range, f, e),
         NEW r \in Reparse(prev, u, range, prev.blocks[range.first + 1].byteStart,
                           SliceEnd(prev, u, range))
  PROVE  Outcome(prev, t, u, range, r)
<1> DEFINE bs == prev.blocks
           p  == range.first
           q  == range.last
           k  == Cut(bs, 0, p)
           to == NewEnd(prev, t, u, range)
           m  == Len(t.lines)
           n  == Len(u.lines)
           start  == bs[p + 1].byteStart
           prefix == SubSeq(bs, 1, p)
           middle == Middle(u, k, to)
           suffix == Suffix(prev, u, range, to)
<1>1. m \in Nat /\ n \in Nat
  BY DEF Text
<1>2. bs \in Seq(Placed(t)) /\ Chain(bs, 0, m) /\ Len(bs) \in Nat /\ prev.lineCount = m
  BY DEF Good, Laid
<1>3. p \in 0 .. Len(bs) - 1
  BY DEF Located
<1>4. /\ to \in 0 .. n /\ bs[q].last = Cut(bs, 0, q) /\ SliceEnd(prev, u, range) = ByteAt(u, to)
      /\ Cut(bs, 0, q) \in 0 .. m
  BY RangeEnd
<1>5. CASE start >= ByteAt(u, to)
  <2>1. r = FullResult(u)
    BY <1>4, <1>5, Zenon DEF Reparse
  <2> QED BY <2>1 DEF Outcome
<1>6. CASE ~ (start >= ByteAt(u, to))
  <2>0. start < ByteAt(u, to)
    <3>1. ByteAt(u, to) \in Nat
      BY <1>4, LineAtOffset
    <3>2. start \in Nat
      <4>1. p + 1 \in 1 .. Len(bs)
        BY <1>2, <1>3
      <4>2. bs[p + 1] \in Placed(t)
        BY <1>2, <4>1
      <4>3. start = ByteAt(t, bs[p + 1].first)
        BY <4>2, PlacedFields
      <4>4. bs[p + 1].first \in 0 .. m
        <5>1. bs[p + 1].first \in Nat /\ bs[p + 1].last \in Nat
              /\ bs[p + 1].first < bs[p + 1].last /\ bs[p + 1].last <= m
          BY <1>2, <4>1, ChainBounds
        <5> QED BY <1>1, <5>1
      <4> QED BY <4>3, <4>4, LineAtOffset
    <3> QED BY <1>6, <3>1, <3>2
  <2>1. k \in Nat /\ k < to /\ SamePart(t, 0, u, 0, k) /\ LinesAt(u, start) = {k}
    <3> HIDE DEF to, n
    <3>1. to \in 0 .. Len(u.lines)
      BY <1>4 DEF n
    <3>2. start = FirstByte(prev, range)
      BY DEF FirstByte
    <3>3. FirstByte(prev, range) < ByteAt(u, to)
      BY <2>0, <3>2
    <3>4. k \in Nat /\ k < to /\ SamePart(t, 0, u, 0, k) /\ LinesAt(u, FirstByte(prev, range)) = {k}
      BY <3>1, <3>3, RangeStart
    <3> QED BY <3>2, <3>4, Zenon
  <2>2. LinesAt(u, ByteAt(u, to)) = {to}
    BY <1>4, LineAtOffset
  <2>3. r \in SliceResults(prev, u, range, start, ByteAt(u, to))
    BY <1>4, <1>6, <2>1, <2>2, Zenon DEF Reparse
  <2>4. r = Splice(prev, u, range, middle, suffix, to - bs[q].last)
    <3> DEFINE startLines == LinesAt(u, start)
               endLines == LinesAt(u, ByteAt(u, to))
    <3>0. r \in UNION { { Splice(prev, u, range, x, y, b - bs[q].last) :
                            x \in {Middle(u, a, b)}, y \in {Suffix(prev, u, range, b)} } :
                         a \in startLines, b \in endLines }
      BY <2>3 DEF SliceResults
    <3> HIDE DEF startLines, endLines
    <3>1. PICK a \in startLines, b \in endLines :
            r \in { Splice(prev, u, range, x, y, b - bs[q].last) :
                      x \in {Middle(u, a, b)}, y \in {Suffix(prev, u, range, b)} }
      BY <3>0
    <3>2. a = k /\ b = to
      BY <2>1, <2>2 DEF startLines, endLines
    <3>3. r = Splice(prev, u, range, Middle(u, a, b), Suffix(prev, u, range, b), b - bs[q].last)
      BY <3>1
    <3> HIDE DEF to, k
    <3> QED BY <3>2, <3>3
  <2>5. prefix \in Seq(Placed(t)) /\ Chain(prefix, 0, k)
    <3>1. 0 \in Nat /\ m \in Nat /\ p \in 0 .. Len(bs) /\ 0 \in 0 .. Len(bs) /\ 0 + 1 = 1
      BY <1>1, <1>2, <1>3
    <3>2. Cut(bs, 0, 0) = 0
      BY DEF Cut
    <3> HIDE DEF bs, p, m
    <3>3. SubSeq(bs, 0 + 1, p) \in Seq(Placed(t)) /\ Chain(SubSeq(bs, 0 + 1, p), Cut(bs, 0, 0), Cut(bs, 0, p))
      BY <1>2, <3>1, ChainPart
    <3> QED BY <3>1, <3>2, <3>3
  <2>6. Laid(u, prefix, 0, k)
    <3>1. Laid(t, prefix, 0, k)
      BY <2>5 DEF Laid
    <3> HIDE DEF prefix, k
    <3> QED BY <2>1, <3>1, StillLaid
  <2>7. Laid(u, middle, k, to)
    <3>1. k \in Nat /\ to \in Nat /\ k < to /\ to <= Len(u.lines)
      BY <1>1, <1>4, <2>1
    <3> HIDE DEF k, to
    <3> QED BY <3>1, MiddleLaid
  <2>8. /\ Laid(u, suffix, to, n)
        /\ Len(suffix) = Len(bs) - q
        /\ \A j \in 1 .. Len(bs) - q : SameBlock(suffix[j], bs[q + j])
        /\ AllRuled(t, bs) => AllRuled(u, suffix)
    BY SuffixLaid
  <2>9. prev.lineCount + (to - bs[q].last) = n
    <3>1. to = Cut(bs, 0, q) + (n - m)
      BY DEF NewEnd, Longer
    <3>2. Cut(bs, 0, q) \in Nat
      BY <1>1, <1>4
    <3> DEFINE g == Cut(bs, 0, q)
    <3> HIDE DEF g, to, m, n
    <3>3. m + (to - g) = n
      BY <1>1, <3>1, <3>2 DEF g
    <3> QED BY <1>2, <1>4, <3>3 DEF g, m
  <2>10. r = FullResult(u) \/ r = Spliced(prev, u, range, middle, suffix)
    <3>1. r = FullResult(u) \/ r = Result(prefix \o middle \o suffix, prev.lineCount + (to - bs[q].last), p, p + Len(middle))
      BY <2>4, Zenon DEF Splice
    <3> QED BY <2>9, <3>1, Zenon DEF Spliced
  <2>a. ASSUME AllRuled(t, bs) PROVE AllRuled(u, prefix)
    <3>1. Laid(t, prefix, 0, k)
      BY <2>5 DEF Laid
    <3>2. CASE p = 0
      <4>1. prefix = <<>>
        BY <3>2
      <4> HIDE DEF prefix
      <4>2. Len(prefix) = 0
        BY <4>1
      <4> QED BY <4>2 DEF AllRuled
    <3>3. CASE p # 0
      <4>1. p \in 1 .. Len(bs) /\ k = bs[p].last /\ p > 0
        BY <1>2, <1>3, <3>3 DEF Cut
      <4>2. k < f /\ f \in Nat /\ SameLines(t.lines, 0, u.lines, 0, f)
        BY <4>1 DEF Located, Changed
      <4>3. Parted(t.lines, k) /\ k > 0
        <5>1. Ruled(t.lines, bs[p])
          BY <2>a, <4>1 DEF AllRuled
        <5>2. bs[p].first \in Nat /\ bs[p].first < bs[p].last /\ bs[p].last \in Nat
          BY <1>2, <4>1, ChainBounds
        <5> QED BY <4>1, <5>1, <5>2 DEF Ruled
      <4>4. Parted(u.lines, k)
        <5> DEFINE z == 0
        <5>1. SameLines(t.lines, z, u.lines, z, f) /\ z < k /\ k < z + f /\ k + (z - z) = k
          BY <2>1, <4>2, <4>3
        <5> HIDE DEF z, k
        <5> QED BY <2>1, <4>3, <5>1, PartedMoved
      <4>5. \A j \in 1 .. Len(prefix) : prefix[j] = bs[j] /\ j \in 1 .. Len(bs)
        <5>1. p \in Nat /\ p <= Len(bs) /\ p - 0 = p /\ 0 + 1 = 1 /\ 0 \in Nat /\ 0 <= p
          BY <1>2, <1>3
        <5>2. /\ Len(SubSeq(bs, 0 + 1, p)) = p - 0
              /\ \A j \in 1 .. p - 0 : SubSeq(bs, 0 + 1, p)[j] = bs[0 + j]
          BY <1>2, <5>1, Extract
        <5>3. SubSeq(bs, 0 + 1, p) = prefix
          BY <5>1
        <5> HIDE DEF prefix, bs, p
        <5> TAKE j \in 1 .. Len(prefix)
        <5>4. j \in 1 .. p /\ 0 + j = j /\ j \in 1 .. p - 0
          BY <5>1, <5>2, <5>3
        <5> QED BY <1>2, <5>1, <5>2, <5>3, <5>4
      <4>6. AllRuled(t, prefix)
        <5> HIDE DEF prefix
        <5> QED BY <2>a, <4>5 DEF AllRuled
      <4> HIDE DEF prefix, k
      <4> QED BY <2>1, <3>1, <4>4, <4>6, StillRuled
    <3> QED BY <3>2, <3>3
  <2>b. ASSUME u.lines \in Seq(CalmLine), AllRuled(t, bs) PROVE AllRuled(u, middle)
    <3>1. k \in Nat /\ to \in Nat /\ k < to /\ to <= Len(u.lines)
      BY <1>1, <1>4, <2>1
    <3>2. Parted(u.lines, to)
      <4> DEFINE g == Cut(bs, 0, q)
      <4>0. q \in 1 .. Len(bs) /\ q # 0 /\ g = bs[q].last
        BY <1>2, <1>4 DEF Located
      <4>1. CASE q = Len(bs)
        <5>1. to = n
          BY <4>1, RangeEnd
        <5> QED BY <1>1, <5>1 DEF Parted
      <4>2. CASE q # Len(bs)
        <5>1. q < Len(bs)
          BY <1>2, <4>0, <4>2
        <5>2. e < g /\ g < m /\ g \in Nat
          BY <1>1, <1>4, <5>1, RangeEnd DEF Located
        <5>3. SameLines(t.lines, e, u.lines, e + Longer(t, u), m - e) /\ e \in Nat
          BY DEF Changed
        <5>4. Parted(t.lines, g)
          <6>1. Ruled(t.lines, bs[q])
            BY <2>b, <4>0 DEF AllRuled
          <6> QED BY <4>0, <6>1 DEF Ruled
        <5>5. to = g + Longer(t, u) /\ Longer(t, u) \in Int
          BY <1>1 DEF NewEnd, Longer
        <5> DEFINE x == Longer(t, u)
                   b == e + x
                   d == m - e
        <5> HIDE DEF g, to, m, x
        <5>6. g < e + d /\ g + (b - e) = to /\ e < g
          BY <1>1, <5>2, <5>3, <5>5 DEF x, m
        <5>7. SameLines(t.lines, e, u.lines, b, d)
          BY <5>3 DEF x
        <5> HIDE DEF b, d
        <5>8. Parted(u.lines, g + (b - e))
          BY <5>2, <5>4, <5>6, <5>7, PartedMoved
        <5> QED BY <5>6, <5>8
      <4> QED BY <4>1, <4>2
    <3> HIDE DEF k, to
    <3> QED BY <2>b, <3>1, <3>2, MiddleRuled
  <2> HIDE DEF prefix, middle, suffix, k, to, n
  <2>11. Laid(u, prefix \o middle \o suffix, 0, n)
    <3>1. /\ prefix \in Seq(Placed(u)) /\ middle \in Seq(Placed(u)) /\ suffix \in Seq(Placed(u))
          /\ Chain(prefix, 0, k) /\ Chain(middle, k, to) /\ Chain(suffix, to, n)
      BY <2>6, <2>7, <2>8 DEF Laid
    <3>2. 0 \in Nat /\ k \in Nat /\ to \in Nat /\ n \in Nat
      BY <1>1, <1>4, <2>1
    <3>3. prefix \o middle \in Seq(Placed(u)) /\ Chain(prefix \o middle, 0, to)
      BY <3>1, <3>2, ChainConcat, ConcatProperties
    <3> DEFINE both == prefix \o middle
    <3> HIDE DEF both
    <3>4. both \o suffix \in Seq(Placed(u)) /\ Chain(both \o suffix, 0, n)
      BY <3>1, <3>2, <3>3, ChainConcat, ConcatProperties DEF both
    <3> QED BY <3>4 DEF both, Laid
  <2>12. middle \in Seq(Placed(u)) /\ suffix \in Seq(Placed(u)) /\ prefix \in Seq(Placed(u))
    BY <2>6, <2>7, <2>8 DEF Laid
  <2>13. \A j \in 1 .. Len(suffix) : SameBlock(suffix[j], bs[q + j])
    BY <2>8
  <2>c. StaysRuled(t, bs, u, prefix \o middle \o suffix)
    <3> SUFFICES ASSUME u.lines \in Seq(CalmLine), AllRuled(t, bs)
                 PROVE  AllRuled(u, prefix \o middle \o suffix)
      BY Zenon DEF StaysRuled
    <3>1. AllRuled(u, prefix) /\ AllRuled(u, middle) /\ AllRuled(u, suffix)
      BY <2>8, <2>a, <2>b
    <3> HIDE DEF bs
    <3>2. prefix \o middle \in Seq(Placed(u)) /\ AllRuled(u, prefix \o middle)
      BY <2>12, <3>1, ConcatRuled, ConcatProperties
    <3> QED BY <2>12, <3>1, <3>2, ConcatRuled
  <2>14. r = Spliced(prev, u, range, middle, suffix) => Outcome(prev, t, u, range, r)
    BY <2>8, <2>11, <2>12, <2>13, <2>c, Zenon DEF Outcome, prefix, n
  <2> QED BY <2>10, <2>14 DEF Outcome
<1> QED BY <1>5, <1>6

(***************************************************************************)
(* Locating an edit.  The code counts the blocks on each side of it; that  *)
(* enough of them are there is all that is needed.                         *)
(***************************************************************************)
LEMMA CountedBeyond ==
  ASSUME NEW n \in Nat, NEW S \in SUBSET (1 .. n), NEW p \in Nat
  PROVE  /\ Cardinality(S) \in Nat
         /\ p < Cardinality(S) => \E k \in S : p < k
         /\ p <= n /\ Cardinality(S) < p => \E k \in 1 .. p : k \notin S
<1>1. IsFiniteSet(1 .. n) /\ IsFiniteSet(1 .. p)
      /\ Cardinality(1 .. p) = p
  <2>1. 1 \in Int /\ n \in Int /\ p \in Int
    OBVIOUS
  <2>2. IsFiniteSet(1 .. n) /\ IsFiniteSet(1 .. p) /\ Cardinality(1 .. p) = (IF 1 > p THEN 0 ELSE p - 1 + 1)
    BY <2>1, FS_Interval
  <2> QED BY <2>2
<1>2. IsFiniteSet(S)
  BY <1>1, FS_Subset
<1>3. Cardinality(S) \in Nat
  BY <1>2, FS_CardinalityType
<1>4. ASSUME p < Cardinality(S), \A k \in S : ~ (p < k) PROVE FALSE
  <2>1. S \in SUBSET (1 .. p)
    BY <1>4
  <2>2. Cardinality(S) <= Cardinality(1 .. p)
    BY <1>1, <2>1, FS_Subset
  <2> QED BY <1>1, <1>3, <1>4, <2>2
<1>5. ASSUME p <= n, Cardinality(S) < p, \A k \in 1 .. p : k \in S PROVE FALSE
  <2>1. (1 .. p) \in SUBSET S
    BY <1>5
  <2>2. Cardinality(1 .. p) <= Cardinality(S)
    BY <1>2, <2>1, FS_Subset
  <2> QED BY <1>1, <1>3, <1>5, <2>2
<1> QED BY <1>3, <1>4, <1>5

\* The range in numbers of blocks, and what the counts say of its ends.
RangeFrom(range, n, before, behind) ==
  LET first == Min({before, n - 1})
      last  == Min({Max({behind, first + 1}), n})
  IN  range = [first |-> Max({first - 1, 0}), last |-> Min({last + 1, n})]

RangeFits(range, n, before, behind) ==
  /\ range.first \in 0 .. n - 1 /\ range.last \in range.first + 1 .. n
  /\ range.first > 0 => range.first < before /\ range.first + 1 < n
  /\ range.last < n => behind < range.last

LEMMA RangeOfCounts ==
  ASSUME NEW n \in Nat, n > 0, NEW before \in Nat, NEW behind \in Nat,
         NEW range, RangeFrom(range, n, before, behind)
  PROVE  RangeFits(range, n, before, behind)
<1> DEFINE first == Min({before, n - 1})
           most  == Max({behind, first + 1})
           last  == Min({most, n})
           p     == Max({first - 1, 0})
           q     == Min({last + 1, n})
<1>1. first = (IF before <= n - 1 THEN before ELSE n - 1)
  BY LeastOfTwo
<1>2. first \in Nat /\ first <= before /\ first <= n - 1
  BY <1>1
<1> HIDE DEF first
<1>3. most = (IF behind >= first + 1 THEN behind ELSE first + 1)
  BY <1>2, GreatestOfTwo
<1>4. most \in Nat /\ behind <= most /\ first + 1 <= most
  BY <1>2, <1>3
<1> HIDE DEF most
<1>5. last = (IF most <= n THEN most ELSE n)
  BY <1>4, LeastOfTwo
<1>6. last \in Nat /\ first + 1 <= last /\ last <= n /\ (last < n => behind <= last)
  BY <1>2, <1>4, <1>5
<1> HIDE DEF last
<1>7. p = (IF first - 1 >= 0 THEN first - 1 ELSE 0)
  BY <1>2, GreatestOfTwo
<1>8. q = (IF last + 1 <= n THEN last + 1 ELSE n)
  BY <1>6, LeastOfTwo
<1>9. range = [first |-> p, last |-> q]
  BY Zenon DEF RangeFrom, first, most, last
<1>10. range.first = p /\ range.last = q
  BY <1>9
<1> HIDE DEF p, q
<1>11. p \in Nat /\ p <= first /\ (p > 0 => p < first)
  BY <1>2, <1>7
<1>12. q \in Nat /\ q <= n /\ first + 1 <= q /\ (q < n => last < n /\ q = last + 1)
  BY <1>2, <1>6, <1>8
<1>13. p \in 0 .. n - 1 /\ q \in p + 1 .. n
  BY <1>2, <1>11, <1>12
<1>14. p > 0 => p < before /\ p + 1 < n
  BY <1>2, <1>11
<1>15. q < n => behind < q
  BY <1>6, <1>12
<1> QED BY <1>10, <1>13, <1>14, <1>15 DEF RangeFits

LEMMA EditLocated ==
  ASSUME NEW t \in Text, NEW bs, Laid(t, bs, 0, Len(t.lines)), bs # <<>>,
         NEW f \in Nat, NEW e \in Nat, NEW start \in Int, NEW end \in Int,
         \A k \in 0 .. Len(t.lines) :
           UnitAt(t, k) <= start => k <= f \/ (k = f + 1 /\ k = Len(t.lines)),
         \A k \in 0 .. Len(t.lines) : end <= UnitAt(t, k) => e <= k
  PROVE  Located(bs, DirtyRange(bs, start, end), f, e)
<1> DEFINE n == Len(bs)
           m == Len(t.lines)
           E == { k \in DOMAIN bs : bs[k].unitEnd <= start }
           S == { k \in DOMAIN bs : bs[k].unitStart < end }
           before == Cardinality(E)
           behind == Cardinality(S)
           range == DirtyRange(bs, start, end)
           p == range.first
           q == range.last
<1>1. /\ bs \in Seq(Placed(t)) /\ Chain(bs, 0, m) /\ n \in Nat /\ n > 0 /\ DOMAIN bs = 1 .. n
      /\ m \in Nat
  <2>1. bs \in Seq(Placed(t)) /\ Chain(bs, 0, m)
    BY DEF Laid
  <2>2. n \in Nat /\ DOMAIN bs = 1 .. n /\ n > 0
    BY <2>1
  <2> QED BY <2>1, <2>2 DEF Text
<1>2. E \in SUBSET (1 .. n) /\ S \in SUBSET (1 .. n)
  BY <1>1
<1>3. ASSUME NEW k \in 1 .. n
      PROVE  /\ bs[k].unitEnd = UnitAt(t, bs[k].last) /\ bs[k].unitStart = UnitAt(t, bs[k].first)
             /\ bs[k].first \in 0 .. m /\ bs[k].last \in 0 .. m /\ bs[k].first < bs[k].last
             /\ bs[k].first \in Nat /\ bs[k].last \in Nat
  <2>1. bs[k] \in Placed(t)
    BY <1>1
  <2>2. /\ bs[k].first \in Nat /\ bs[k].last \in Nat
        /\ bs[k].first < bs[k].last /\ bs[k].last <= m
    BY <1>1, ChainBounds
  <2>3. bs[k].first \in 0 .. m /\ bs[k].last \in 0 .. m
    BY <1>1, <2>2
  <2> QED BY <2>1, <2>2, <2>3, PlacedFields
<1>4. before \in Nat /\ behind \in Nat
  <2>1. 0 \in Nat
    OBVIOUS
  <2> HIDE DEF E, S, n
  <2> QED BY <1>1, <1>2, <2>1, CountedBeyond
<1>5. /\ p \in 0 .. n - 1 /\ q \in p + 1 .. n
      /\ p > 0 => p < before /\ p + 1 < n
      /\ q < n => behind < q
  <2>1. before = EndingBefore(bs, start) /\ behind = StartingBefore(bs, end)
    BY Zenon DEF EndingBefore, StartingBefore
  <2>2. RangeFrom(range, n, before, behind)
    <3> HIDE DEF before, behind
    <3>1. /\ Overlap(bs, start, end).first = Min({before, n - 1})
          /\ Overlap(bs, start, end).last = Min({Max({behind, Min({before, n - 1}) + 1}), n})
      BY <2>1 DEF Overlap
    <3> QED BY <3>1, Zenon DEF DirtyRange, RangeFrom
  <2> HIDE DEF n, before, behind, range
  <2>3. RangeFits(range, n, before, behind)
    BY <1>1, <1>4, <2>2, RangeOfCounts
  <2> QED BY <2>3 DEF RangeFits
<1> HIDE DEF before, behind, range, p, q
<1>6. p > 0 => Cut(bs, 0, p) < f
  <2> SUFFICES ASSUME p > 0 PROVE Cut(bs, 0, p) < f
    OBVIOUS
  <2>1. p \in Nat /\ p < before /\ p + 1 < n /\ p \in 1 .. n /\ p + 1 \in 1 .. n /\ n \in 1 .. n
    BY <1>1, <1>5
  <2>2. PICK k \in E : p < k
    <3> HIDE DEF E, n
    <3> QED BY <1>1, <1>2, <2>1, CountedBeyond DEF before
  <2>3. k \in 1 .. n /\ bs[k].unitEnd <= start
    BY <1>1, <2>2
  <2>4. bs[k].last <= f \/ (bs[k].last = f + 1 /\ bs[k].last = m)
    BY <1>3, <2>3
  <2>5. bs[p].last <= bs[k].first /\ bs[p].last <= bs[p + 1].first
    BY <1>1, <2>1, <2>2, <2>3, ChainOrdered
  <2>6. /\ bs[k].first \in Nat /\ bs[k].last \in Nat /\ bs[k].first < bs[k].last
        /\ bs[p].last \in Nat
        /\ bs[p + 1].first \in Nat /\ bs[p + 1].last \in Nat /\ bs[p + 1].first < bs[p + 1].last
        /\ bs[n].first \in Nat /\ bs[n].last \in Nat /\ bs[n].first < bs[n].last
        /\ bs[n].last <= m
    BY <1>1, <1>3, <2>1, <2>3
  <2>7. bs[p + 1].last <= bs[n].first
    BY <1>1, <2>1, ChainOrdered
  <2>8. bs[p].last < f
    <3>1. CASE bs[k].last <= f
      BY <2>5, <2>6, <3>1
    <3>2. CASE bs[k].last = f + 1 /\ bs[k].last = m
      <4> DEFINE a == bs[p].last  b == bs[p + 1].first  c == bs[p + 1].last
                 x == bs[n].first  y == bs[n].last
      <4>1. a <= b /\ b < c /\ c <= x /\ x < y /\ y <= f + 1
        BY <2>5, <2>6, <2>7, <3>2
      <4>2. a \in Nat /\ b \in Nat /\ c \in Nat /\ x \in Nat /\ y \in Nat
        BY <2>6
      <4> HIDE DEF a, b, c, x, y
      <4>3. a < f
        BY <4>1, <4>2
      <4> QED BY <4>3 DEF a
    <3> QED BY <2>4, <3>1, <3>2
  <2> QED BY <2>1, <2>8 DEF Cut
<1>7. q < n => e < Cut(bs, 0, q)
  <2> SUFFICES ASSUME q < n PROVE e < Cut(bs, 0, q)
    OBVIOUS
  <2>1. q \in Nat /\ q <= n /\ behind < q /\ q # 0 /\ q \in 1 .. n
    BY <1>1, <1>5
  <2>2. PICK k \in 1 .. q : k \notin S
    <3> HIDE DEF S, n
    <3> QED BY <1>1, <1>2, <2>1, CountedBeyond DEF behind
  <2>3. k \in 1 .. n /\ k <= q /\ ~ (bs[k].unitStart < end)
    BY <1>1, <2>1, <2>2
  <2>4. bs[k].unitStart = UnitAt(t, bs[k].first) /\ bs[k].first \in 0 .. m
    BY <1>3, <2>3
  <2>5. end <= UnitAt(t, bs[k].first)
    <3>1. UnitAt(t, bs[k].first) \in Nat
      BY <2>4, OffsetType DEF UnitAt, Lengths
    <3> QED BY <2>3, <2>4, <3>1
  <2>6. e <= bs[k].first
    BY <2>4, <2>5
  <2>7. k = q \/ bs[k].last <= bs[q].first
    <3>1. k = q \/ k < q
      BY <2>1, <2>3
    <3> QED BY <1>1, <2>1, <2>3, <3>1, ChainOrdered
  <2>8. /\ bs[k].first \in Nat /\ bs[k].last \in Nat /\ bs[k].first < bs[k].last
        /\ bs[q].first \in Nat /\ bs[q].last \in Nat /\ bs[q].first < bs[q].last
    BY <1>3, <2>1, <2>3
  <2>9. e < bs[q].last
    <3>1. CASE k = q
      <4>1. e < bs[k].last
        BY <2>6, <2>8
      <4> QED BY <3>1, <4>1, Zenon
    <3>2. CASE bs[k].last <= bs[q].first
      BY <2>6, <2>8, <3>2
    <3> QED BY <2>7, <3>1, <3>2
  <2> QED BY <2>1, <2>9 DEF Cut
<1> QED BY <1>5, <1>6, <1>7 DEF Located, range, p, q

(***************************************************************************)
(* The host's edits.                                                       *)
(***************************************************************************)
LEMMA EditChanges ==
  ASSUME alphabet \subseteq Line, text \in Text, NEW r \in Replacements, IsText(Edited(r))
  PROVE  /\ Edited(r) \in Text
         /\ Changed(text, Edited(r), r.from, r.from + r.removed)
<1> DEFINE ls == text.lines
           m  == Len(ls)
           f  == r.from
           e  == r.from + r.removed
           ins  == r.inserted
           head == SubSeq(ls, 1, f)
           rest == SubSeq(ls, e + 1, m)
           both == head \o ins
           u    == Edited(r)
<1>1. ls \in Seq(Line) /\ m \in Nat
  BY DEF Text
<1>2. /\ f \in 0 .. m /\ r.removed \in 0 .. MaxReplaced
      /\ ins \in UNION { [1 .. n -> alphabet] : n \in 0 .. MaxInserted }
      /\ r.ended \in BOOLEAN
      /\ e <= m
      /\ e < m => r.ended = text.ended
  BY DEF Replacements
<1>3. f \in Nat /\ e \in Nat /\ f <= e /\ r.removed \in Nat /\ 0 + 1 = 1 /\ f <= m
  <2>1. MaxReplaced \in Nat
    BY IncrementalAssumption
  <2>2. r.removed \in Nat /\ f \in Nat /\ f <= m
    BY <1>1, <1>2, <2>1
  <2> QED BY <2>2
<1>4. ins \in Seq(Line) /\ Len(ins) \in Nat
  <2>1. PICK n \in 0 .. MaxInserted : ins \in [1 .. n -> alphabet]
    BY <1>2
  <2>2. n \in Nat
    BY IncrementalAssumption
  <2>3. ins \in [1 .. n -> Line]
    BY <2>1
  <2> HIDE DEF ins
  <2> QED BY <2>2, <2>3
<1>5. u = [lines |-> both \o rest, ended |-> r.ended]
  BY Zenon DEF Edited
<1> HIDE DEF ls, m, f, e, ins, u
<1>6. head \in Seq(Line) /\ Len(head) = f /\ \A k \in 1 .. f : head[k] = ls[k]
  <2>1. 0 \in Nat /\ 0 <= f /\ f - 0 = f
    BY <1>3
  <2>2. /\ SubSeq(ls, 0 + 1, f) \in Seq(Line) /\ Len(SubSeq(ls, 0 + 1, f)) = f - 0
        /\ \A k \in 1 .. f - 0 : SubSeq(ls, 0 + 1, f)[k] = ls[0 + k]
    BY <1>1, <1>3, <2>1, Extract DEF m
  <2>3. SubSeq(ls, 0 + 1, f) = head
    BY <1>3
  <2> HIDE DEF head
  <2>4. \A k \in 1 .. f : head[k] = ls[k]
    <3> TAKE k \in 1 .. f
    <3>1. 0 + k = k
      OBVIOUS
    <3> QED BY <2>1, <2>2, <2>3, <3>1
  <2> QED BY <2>1, <2>2, <2>3, <2>4
<1>7. rest \in Seq(Line) /\ Len(rest) = m - e /\ \A k \in 1 .. m - e : rest[k] = ls[e + k]
  BY <1>1, <1>2, <1>3, Extract DEF m
<1> HIDE DEF head, rest
<1> DEFINE c == Len(ins)
           n == f + c + (m - e)
<1>8. /\ both \in Seq(Line) /\ Len(both) = f + c
      /\ \A k \in 1 .. f + c : both[k] = (IF k <= f THEN head[k] ELSE ins[k - f])
  BY <1>4, <1>6, ConcatProperties
<1> HIDE DEF both
<1>9. /\ u.lines \in Seq(Line) /\ Len(u.lines) = n
      /\ \A k \in 1 .. n : u.lines[k] = (IF k <= f + c THEN both[k] ELSE rest[k - (f + c)])
  <2>1. u.lines = both \o rest
    BY <1>5
  <2> DEFINE x == Len(both)
             y == Len(rest)
  <2>2. /\ both \o rest \in Seq(Line) /\ Len(both \o rest) = x + y
        /\ \A k \in 1 .. x + y : (both \o rest)[k] = (IF k <= x THEN both[k] ELSE rest[k - x])
    BY <1>7, <1>8, ConcatProperties
  <2>3. x = f + c /\ y = m - e
    BY <1>7, <1>8
  <2> HIDE DEF x, y
  <2> QED BY <2>1, <2>2, <2>3
<1>10. c \in Nat /\ m - e \in Nat
  BY <1>1, <1>2, <1>3, <1>4
<1> HIDE DEF c
<1>11. u \in Text
  <2>1. IsText(u)
    BY DEF u
  <2>2. u \in [lines : Seq(Line), ended : BOOLEAN]
    <3>1. u = [lines |-> u.lines, ended |-> r.ended]
      BY <1>5
    <3> QED BY <1>2, <1>9, <3>1
  <2> QED BY <2>1, <2>2 DEF Text
<1> HIDE DEF n
<1>a. n = f + c + (m - e)
  BY DEF n
<1>12. SameLines(ls, 0, u.lines, 0, f)
  <2>1. ASSUME NEW k \in 1 .. f PROVE ls[0 + k] = u.lines[0 + k]
    <3>1. 0 + k = k /\ k \in 1 .. n /\ k <= f + c /\ k <= f /\ k \in 1 .. f + c
      BY <1>3, <1>10, <1>a
    <3>2. u.lines[k] = both[k]
      BY <1>9, <3>1
    <3>3. both[k] = head[k]
      BY <1>8, <3>1
    <3> QED BY <1>6, <3>1, <3>2, <3>3
  <2>2. 0 + f <= Len(ls) /\ 0 + f <= Len(u.lines) /\ 0 \in Nat
    BY <1>3, <1>9, <1>10, <1>a DEF m
  <2> QED BY <1>3, <2>1, <2>2 DEF SameLines
<1>13. Longer(text, u) = n - m
  BY <1>9 DEF Longer, m, ls
<1>14. e + (n - m) = f + c /\ f <= f + c
  BY <1>1, <1>3, <1>10, <1>a
<1>15. SameLines(ls, e, u.lines, f + c, m - e)
  <2>1. ASSUME NEW k \in 1 .. m - e PROVE ls[e + k] = u.lines[(f + c) + k]
    <3> DEFINE j == (f + c) + k
    <3>1. j \in 1 .. n /\ ~ (j <= f + c) /\ j - (f + c) = k
      BY <1>3, <1>10, <1>a
    <3> HIDE DEF j
    <3>2. u.lines[j] = rest[j - (f + c)]
      BY <1>9, <3>1
    <3>3. u.lines[j] = rest[k]
      BY <3>1, <3>2
    <3>4. rest[k] = ls[e + k]
      BY <1>7
    <3> QED BY <3>3, <3>4 DEF j
  <2>2. f + c \in Nat /\ e + (m - e) <= m /\ (f + c) + (m - e) <= n
    BY <1>1, <1>3, <1>10, <1>a
  <2> QED BY <1>3, <1>9, <1>10, <2>1, <2>2 DEF SameLines, m
<1>16. e < m => u.ended = text.ended
  BY <1>2, <1>5
<1>17. Changed(text, u, f, e)
  <2>1. SameLines(text.lines, 0, u.lines, 0, f) /\ SameLines(text.lines, e, u.lines, e + Longer(text, u), Len(text.lines) - e)
    BY <1>12, <1>13, <1>14, <1>15 DEF ls, m
  <2>2. f <= e + Longer(text, u)
    BY <1>13, <1>14
  <2>3. e <= Len(text.lines) /\ (e < Len(text.lines) => u.ended = text.ended)
    BY <1>2, <1>16 DEF m, ls
  <2> QED BY <1>3, <2>1, <2>2, <2>3 DEF Changed
<1> QED BY <1>11, <1>17 DEF u, f, e

\* What the host reports covers the lines that changed.
LEMMA ReportCovers ==
  ASSUME alphabet \subseteq Line, text \in Text, NEW r \in Replacements, NEW u \in Text,
         NEW edit, edit = Report(r, u)
  PROVE  /\ edit.start \in Int /\ edit.start + edit.oldLength \in Int
         /\ \A k \in 0 .. Len(text.lines) :
              UnitAt(text, k) <= edit.start => k <= r.from \/ (k = r.from + 1 /\ k = Len(text.lines))
         /\ \A k \in 0 .. Len(text.lines) :
              edit.start + edit.oldLength <= UnitAt(text, k) => r.from + r.removed <= k
<1> DEFINE m == Len(text.lines)
           f == r.from
           e == r.from + r.removed
           oldEnd == UnitAt(text, e)
           newEnd == UnitLength(u) - (UnitLength(text) - oldEnd)
           kept   == IF r.narrow THEN Kept(text.lines[f + 1], r.inserted[1]) ELSE 0
           near   == UnitAt(text, f) + kept
           start  == Min({near, newEnd})
<1>1. text.lines \in Seq(Line) /\ m \in Nat /\ Len(u.lines) \in Nat /\ LeafUnits \in Lengths
  BY DEF Text, Lengths
<1>2. /\ f \in 0 .. m /\ r.removed \in 0 .. MaxReplaced /\ e <= m
      /\ r.inserted \in UNION { [1 .. n -> alphabet] : n \in 0 .. MaxInserted }
      /\ r.narrow \in BOOLEAN
      /\ r.narrow => r.removed > 0 /\ r.inserted # <<>>
  BY DEF Replacements
<1>3. f \in Nat /\ e \in 0 .. m /\ e \in Nat /\ f <= m /\ r.removed \in Nat
  <2>1. MaxReplaced \in Nat
    BY IncrementalAssumption
  <2>2. r.removed \in Nat /\ f \in Nat /\ f <= m
    BY <1>1, <1>2, <2>1
  <2> QED BY <1>2, <2>2
<1>4. /\ edit.start = start /\ edit.oldLength = oldEnd - start
  BY Zenon DEF Report
<1>5. oldEnd \in Nat /\ newEnd \in Int /\ UnitAt(text, f) \in Nat
  <2>1. oldEnd \in Nat /\ UnitAt(text, f) \in Nat
    BY <1>1, <1>2, <1>3, OffsetType DEF UnitAt
  <2>2. UnitLength(u) \in Nat /\ UnitLength(text) \in Nat
    <3>1. Len(u.lines) \in 0 .. Len(u.lines) /\ m \in 0 .. m
      BY <1>1
    <3> QED BY <1>1, <3>1, OffsetType DEF UnitAt, UnitLength
  <2> HIDE DEF oldEnd
  <2> QED BY <2>1, <2>2
<1>6. /\ kept \in Nat
      /\ r.narrow => f + 1 \in 1 .. m /\ kept <= Markup(text.lines[f + 1])
      /\ ~ r.narrow => kept = 0
  <2>1. CASE ~ r.narrow
    BY <2>1
  <2>2. CASE r.narrow
    <3> DEFINE old == text.lines[f + 1]
               new == r.inserted[1]
    <3>1. f + 1 \in 1 .. m
      BY <1>1, <1>2, <1>3, <2>2
    <3>2. old \in Line
      BY <1>1, <3>1, ElementOfSeq
    <3>3. new \in Line
      <4>1. PICK n \in 0 .. MaxInserted : r.inserted \in [1 .. n -> alphabet]
        BY <1>2
      <4>2. n \in Nat
        BY IncrementalAssumption
      <4>3. r.inserted # <<>>
        BY <1>2, <2>2
      <4>4. n # 0
        <5> DEFINE ins == r.inserted
        <5> SUFFICES ASSUME n = 0 PROVE FALSE
          OBVIOUS
        <5>1. ins \in [1 .. 0 -> alphabet] /\ ins # <<>>
          BY <4>1, <4>3
        <5> HIDE DEF ins
        <5>2. ins \in Seq(alphabet) /\ Len(ins) = 0
          BY <5>1
        <5> QED BY <5>1, <5>2
      <4>5. 1 \in 1 .. n
        BY <4>2, <4>4
      <4> QED BY <4>1, <4>5
    <3> HIDE DEF old, new
    <3>4. Markup(old) \in Nat /\ old.sp \in Nat /\ new.sp \in Nat
      BY <1>1, <3>2, <3>3, LineLengthType DEF Line
    <3>5. old.sp <= Markup(old)
      <4>1. old.gap \in Nat /\ old.quote \in BOOLEAN /\ old.mark \in Marks /\ old.sp \in Nat
        BY <3>2 DEF Line
      <4> DEFINE w == CASE old.mark = "none" -> 0 [] old.mark = "check" -> 6 [] OTHER -> MarkWidth(old.mark)
                 x == IF old.quote THEN 2 + old.gap ELSE 0
      <4>2. w \in Nat
        BY <4>1 DEF Marks, MarkWidth
      <4>3. x \in Nat
        BY <4>1
      <4>4. Markup(old) = old.sp + x + w
        BY DEF Markup
      <4> HIDE DEF w, x
      <4> QED BY <4>1, <4>2, <4>3, <4>4
    <3>6. Kept(old, new) \in Nat /\ Kept(old, new) <= Markup(old)
      <4>1. Min({old.sp, new.sp}) = (IF old.sp <= new.sp THEN old.sp ELSE new.sp)
        BY <3>4, LeastOfTwo
      <4>2. Kept(old, new) \in {Markup(old), Min({old.sp, new.sp}), 0}
        BY DEF Kept
      <4> QED BY <3>4, <3>5, <4>1, <4>2
    <3>7. kept = Kept(old, new)
      BY <2>2 DEF old, new
    <3> QED BY <2>2, <3>1, <3>6, <3>7 DEF old
  <2> QED BY <1>2, <2>1, <2>2
<1> HIDE DEF kept, newEnd, oldEnd, m, f, e
<1>7. near \in Nat
  BY <1>5, <1>6
<1>8. start \in Int /\ start <= near
  <2>1. near \in Int /\ newEnd \in Int
    BY <1>5, <1>7
  <2>2. start = (IF near <= newEnd THEN near ELSE newEnd)
    BY <2>1, LeastOfTwo
  <2> HIDE DEF near, start
  <2> QED BY <2>1, <2>2
<1>9. edit.start + edit.oldLength = oldEnd
  <2> HIDE DEF start
  <2> QED BY <1>4, <1>5, <1>8
<1>10. ASSUME NEW k \in 0 .. m, UnitAt(text, k) <= start
       PROVE  k <= f \/ (k = f + 1 /\ k = m)
  <2>1. UnitAt(text, k) \in Nat
    BY <1>1, OffsetType DEF UnitAt, m
  <2>2. UnitAt(text, k) <= near
    <3> HIDE DEF near, start
    <3> QED BY <1>7, <1>8, <1>10, <2>1
  <2>3. CASE ~ r.narrow
    <3>1. UnitAt(text, k) <= UnitAt(text, f)
      BY <1>5, <1>6, <2>1, <2>2, <2>3
    <3>2. k <= f
      BY <1>1, <1>2, <3>1, LinesOrdered DEF UnitAt, m
    <3> QED BY <3>2
  <2>4. CASE r.narrow
    <3>1. f + 1 \in 1 .. m /\ kept <= Markup(text.lines[f + 1]) /\ f + 1 - 1 = f
      BY <1>3, <1>6, <2>4
    <3> DEFINE j == f + 1
    <3>2. j \in 1 .. m /\ j \in 0 .. m /\ kept <= Markup(text.lines[j]) /\ j - 1 = f
      BY <1>3, <3>1
    <3> HIDE DEF j
    <3>3. /\ Offset(text, j - 1, LeafUnits) + Markup(text.lines[j]) <= Offset(text, j, LeafUnits)
          /\ Offset(text, j, LeafUnits) \in Nat
          /\ j < m => Offset(text, j, LeafUnits)
                        = Offset(text, j - 1, LeafUnits) + LineLength(text.lines[j], LeafUnits)
      BY <1>1, <3>2, OffsetGrows DEF m
    <3>4. UnitAt(text, f) + Markup(text.lines[j]) <= UnitAt(text, j) /\ UnitAt(text, j) \in Nat
      BY <3>2, <3>3 DEF UnitAt
    <3>5. /\ Markup(text.lines[j]) \in Nat /\ LineLength(text.lines[j], LeafUnits) \in Nat
          /\ LineLength(text.lines[j], LeafUnits) > Markup(text.lines[j])
      <4>1. text.lines[j] \in Line
        BY <1>1, <3>2, ElementOfSeq DEF m
      <4> QED BY <1>1, <4>1, LineLengthType
    <3>6. UnitAt(text, k) <= UnitAt(text, j)
      BY <1>5, <1>6, <2>1, <2>2, <3>2, <3>4, <3>5
    <3>7. k <= j
      BY <1>1, <3>2, <3>6, LinesOrdered DEF UnitAt, m
    <3>8. k = j /\ j < m => FALSE
      <4> SUFFICES ASSUME k = j, j < m PROVE FALSE
        OBVIOUS
      <4>1. UnitAt(text, j) = UnitAt(text, f) + LineLength(text.lines[j], LeafUnits)
        BY <3>2, <3>3 DEF UnitAt
      <4> QED BY <1>5, <1>6, <2>2, <2>4, <3>2, <3>4, <3>5, <4>1
    <3>9. k <= f \/ (k = j /\ k = m)
      BY <1>1, <1>3, <3>2, <3>7, <3>8
    <3> QED BY <3>9 DEF j
  <2> QED BY <1>2, <2>3, <2>4
<1>11. ASSUME NEW k \in 0 .. m, oldEnd <= UnitAt(text, k) PROVE e <= k
  BY <1>1, <1>3, <1>11, LinesOrdered DEF UnitAt, oldEnd, m
<1>12. \A k \in 0 .. m : UnitAt(text, k) <= edit.start => k <= f \/ (k = f + 1 /\ k = m)
  BY <1>4, <1>10, Zenon
<1>13. \A k \in 0 .. m : edit.start + edit.oldLength <= UnitAt(text, k) => e <= k
  BY <1>9, <1>11, Zenon
<1>14. edit.start \in Int /\ edit.start + edit.oldLength \in Int
  <2> HIDE DEF start
  <2> QED BY <1>4, <1>5, <1>8, <1>9
<1> QED BY <1>12, <1>13, <1>14, Zenon DEF m, f, e

(***************************************************************************)
(* One call.                                                               *)
(***************************************************************************)
LEMMA UpdateOutcome ==
  ASSUME NEW t \in Text, NEW u \in Text, NEW f, NEW e, Changed(t, u, f, e),
         NEW prev, Good(prev, t), NEW edit,
         edit.start \in Int, edit.start + edit.oldLength \in Int,
         \A k \in 0 .. Len(t.lines) :
           UnitAt(t, k) <= edit.start => k <= f \/ (k = f + 1 /\ k = Len(t.lines)),
         \A k \in 0 .. Len(t.lines) : edit.start + edit.oldLength <= UnitAt(t, k) => e <= k,
         NEW r \in Update(prev, u, edit)
  PROVE  \/ r = FullResult(u)
         \/ \E range : Located(prev.blocks, range, f, e) /\ Outcome(prev, t, u, range, r)
<1> DEFINE bs == prev.blocks
           range == DirtyRange(bs, edit.start, edit.start + edit.oldLength)
           full == bs = <<>> \/ NeedsFullReparse(bs, range, u, edit.start, edit.newLength)
           results == Reparse(prev, u, range, bs[range.first + 1].byteStart, SliceEnd(prev, u, range))
<1>1. r \in IF full THEN {FullResult(u)} ELSE results
  <2>1. Update(prev, u, edit) = UNION { IF full THEN {FullResult(u)} ELSE results : x \in {range} }
    BY Zenon DEF Update
  <2> HIDE DEF full, results, range
  <2> QED BY <2>1
<1>2. CASE full
  BY <1>1, <1>2, Zenon
<1>3. CASE ~ full
  <2>1. r \in results /\ bs # <<>>
    BY <1>1, <1>3, Zenon
  <2>2. Laid(t, bs, 0, Len(t.lines)) /\ f \in Nat /\ e \in Nat
    BY DEF Good, Changed
  <2> DEFINE start == edit.start
             end   == edit.start + edit.oldLength
  <2>3. Located(bs, range, f, e)
    <3>1. /\ start \in Int /\ end \in Int
          /\ \A k \in 0 .. Len(t.lines) :
               UnitAt(t, k) <= start => k <= f \/ (k = f + 1 /\ k = Len(t.lines))
          /\ \A k \in 0 .. Len(t.lines) : end <= UnitAt(t, k) => e <= k
      BY Zenon
    <3> HIDE DEF start, end, bs
    <3>2. Located(bs, DirtyRange(bs, start, end), f, e)
      BY <2>1, <2>2, <3>1, EditLocated
    <3> QED BY <3>2 DEF start, end, bs
  <2> HIDE DEF range
  <2>4. Outcome(prev, t, u, range, r)
    BY <2>1, <2>3, ReparseOutcome
  <2> QED BY <2>3, <2>4
<1> QED BY <1>2, <1>3

(***************************************************************************)
(* The invariant.                                                          *)
(***************************************************************************)
EngineInv == alphabet \subseteq Line /\ text \in Text /\ Good(snapshot, text)

LEMMA FullIsGood ==
  ASSUME NEW t \in Text
  PROVE  Good(Snapshot(t, FullParse(t), Len(t.lines)), t)
BY FullParseLaid DEF Good, Snapshot

LEMMA EngineStart == EngineInit => EngineInv
<1> SUFFICES ASSUME EngineInit PROVE EngineInv
  OBVIOUS
<1>1. alphabet \subseteq Line
  BY IncrementalAssumption DEF EngineInit
<1>2. PICK n \in 0 .. MaxLines, ended \in BOOLEAN :
        \E ls \in [1 .. n -> alphabet] : text = [lines |-> ls, ended |-> ended]
  BY DEF EngineInit
<1>3. PICK ls \in [1 .. n -> alphabet] : text = [lines |-> ls, ended |-> ended]
  BY <1>2
<1>4. ls \in Seq(Line)
  <2>1. n \in Nat
    BY IncrementalAssumption
  <2>2. ls \in [1 .. n -> Line]
    BY <1>1, <1>3
  <2> QED BY <2>1, <2>2
<1>5. text \in Text
  BY <1>3, <1>4 DEF EngineInit, Text
<1>6. Good(snapshot, text)
  BY <1>5, FullIsGood DEF EngineInit
<1> QED BY <1>1, <1>5, <1>6 DEF EngineInv

\* A call makes a full parse or a splice, of a range that has the edit in it.
LEMMA CallOutcome ==
  ASSUME EngineInv, NEW edit \in Edits, Edit(edit)
  PROVE  /\ text' \in Text /\ alphabet' = alphabet
         /\ \E r : /\ snapshot' = Snapshot(text', r.blocks, r.lineCount) /\ dirty' = r.dirty
                   /\ \/ r = FullResult(text')
                      \/ \E range, f, e : /\ Located(snapshot.blocks, range, f, e)
                                          /\ Outcome(snapshot, text, text', range, r)
<1>0. alphabet \subseteq Line /\ text \in Text /\ Good(snapshot, text)
  BY DEF EngineInv
<1>1. PICK q \in Replacements : edit \in { Report(q, t) : t \in { x \in {Edited(q)} : IsText(x) } }
  BY Zenon DEF Edits
<1>2. edit = Report(q, Edited(q)) /\ IsText(Edited(q))
  BY <1>1
<1> DEFINE u == Edited(q)
           f == q.from
           e == q.from + q.removed
<1>3. u \in Text /\ Changed(text, u, f, e)
  BY <1>0, <1>2, EditChanges
<1>4. edit.text = u
  BY <1>2 DEF Report
<1>5. /\ edit.start \in Int /\ edit.start + edit.oldLength \in Int
      /\ \A k \in 0 .. Len(text.lines) :
           UnitAt(text, k) <= edit.start => k <= f \/ (k = f + 1 /\ k = Len(text.lines))
      /\ \A k \in 0 .. Len(text.lines) : edit.start + edit.oldLength <= UnitAt(text, k) => e <= k
  BY <1>0, <1>2, <1>3, ReportCovers, Zenon
<1>6. text' = u /\ alphabet' = alphabet
  BY <1>4 DEF Edit
<1> HIDE DEF u, f, e
<1>7. PICK r \in Update(snapshot, u, edit) :
        snapshot' = Snapshot(u, r.blocks, r.lineCount) /\ dirty' = r.dirty
  BY <1>4, Zenon DEF Edit
<1>8. \/ r = FullResult(u)
      \/ \E range : Located(snapshot.blocks, range, f, e) /\ Outcome(snapshot, text, u, range, r)
  BY <1>0, <1>3, <1>5, UpdateOutcome
<1>9. \/ r = FullResult(u)
      \/ \E range, f1, e1 : Located(snapshot.blocks, range, f1, e1) /\ Outcome(snapshot, text, u, range, r)
  BY <1>8, Zenon
<1> QED BY <1>3, <1>6, <1>7, <1>9, Zenon

LEMMA EngineSteps == EngineInv /\ [EngineNext]_engineVars => EngineInv'
<1> SUFFICES ASSUME EngineInv, [EngineNext]_engineVars PROVE EngineInv'
  OBVIOUS
<1>1. CASE EngineNext
  <2>1. PICK edit \in Edits : Edit(edit)
    BY <1>1 DEF EngineNext
  <2>2. text' \in Text /\ alphabet' = alphabet
    BY <2>1, CallOutcome
  <2>3. PICK r : /\ snapshot' = Snapshot(text', r.blocks, r.lineCount)
                 /\ \/ r = FullResult(text')
                    \/ \E range, f, e : /\ Located(snapshot.blocks, range, f, e)
                                        /\ Outcome(snapshot, text, text', range, r)
    BY <2>1, CallOutcome, Zenon
  <2> DEFINE t2 == text'
             s2 == snapshot'
  <2>4. CASE r = FullResult(t2)
    <3>1. r.blocks = FullParse(t2) /\ r.lineCount = Len(t2.lines)
      BY <2>4, Zenon DEF FullResult, AllDirty, Result
    <3>2. s2 = Snapshot(t2, FullParse(t2), Len(t2.lines))
      BY <2>3, <3>1, Zenon
    <3>3. Good(s2, t2)
      <4> HIDE DEF s2, t2
      <4>1. t2 \in Text
        BY <2>2 DEF t2
      <4> QED BY <3>2, <4>1, FullIsGood
    <3> QED BY <2>2, <3>3 DEF EngineInv
  <2>5. CASE r # FullResult(t2)
    <3>1. PICK range : Outcome(snapshot, text, t2, range, r)
      BY <2>3, <2>5, Zenon
    <3> HIDE DEF s2, t2
    <3>2. PICK middle, suffix \in Seq(Placed(t2)) :
            /\ r = Spliced(snapshot, t2, range, middle, suffix)
            /\ Laid(t2, SubSeq(snapshot.blocks, 1, range.first) \o middle \o suffix, 0, Len(t2.lines))
      BY <2>5, <3>1, Zenon DEF Outcome
    <3>3. r.blocks = SubSeq(snapshot.blocks, 1, range.first) \o middle \o suffix
          /\ r.lineCount = Len(t2.lines)
      BY <3>2, Zenon DEF Spliced, Result
    <3>4. s2 = Snapshot(t2, r.blocks, r.lineCount) /\ t2 \in Text
      BY <2>2, <2>3 DEF s2, t2
    <3>5. Good(s2, t2)
      BY <3>2, <3>3, <3>4 DEF Good, Snapshot
    <3> QED BY <2>2, <3>5 DEF EngineInv, s2, t2
  <2> QED BY <2>4, <2>5
<1>2. CASE UNCHANGED engineVars
  BY <1>2 DEF EngineInv, engineVars
<1> QED BY <1>1, <1>2

LEMMA InvDescribes == EngineInv => SnapshotDescribesText
<1> SUFFICES ASSUME EngineInv PROVE SnapshotDescribesText
  OBVIOUS
<1> DEFINE bs == snapshot.blocks
           m  == Len(text.lines)
<1>1. text.lines \in Seq(Line) /\ m \in Nat /\ Good(snapshot, text)
  BY DEF EngineInv, Text
<1>2. bs \in Seq(Placed(text)) /\ Chain(bs, 0, m) /\ Len(bs) \in Nat
  BY <1>1 DEF Good, Laid
<1>3. bs = <<>> <=> text.lines = <<>>
  <2>1. text.lines = <<>> <=> 0 = m
    BY <1>1
  <2> QED BY <1>2, <2>1 DEF Chain
<1>4. ASSUME NEW n \in 1 .. Len(bs)
      PROVE  Describes(bs[n], text) /\ bs[n].first = (IF n = 1 THEN 0 ELSE bs[n - 1].last)
  <2>1. bs[n] \in Placed(text)
    BY <1>2
  <2>2. bs[n] = Node(text, [kind |-> bs[n].kind, first |-> bs[n].first, last |-> bs[n].last])
    BY <2>1, PlacedFields
  <2>3. 0 <= bs[n].first /\ bs[n].first < bs[n].last /\ bs[n].last <= m
    BY <1>2, ChainBounds
  <2>4. bs[n].first = (IF n = 1 THEN 0 ELSE bs[n - 1].last)
    BY <1>2 DEF Chain
  <2> HIDE DEF bs
  <2>5. Describes(bs[n], text)
    BY <2>2, <2>3 DEF Describes
  <2> QED BY <2>4, <2>5
<1>5. bs # <<>> => bs[Len(bs)].last = m
  BY <1>2 DEF Chain
<1>6. /\ snapshot.lineCount = m
      /\ snapshot.byteLength = ByteLength(text) /\ snapshot.unitLength = UnitLength(text)
  BY <1>1 DEF Good
<1> QED BY <1>3, <1>4, <1>5, <1>6 DEF SnapshotDescribesText

(* After any calls the stored snapshot describes the text of the last one: *)
(* blocks end to end from the first line to the last, each with the        *)
(* offsets in bytes, units and lines of the lines it was made from         *)
(* (incremental_update, shift_block, shift_suffix_block).                  *)
THEOREM SnapshotStaysTrue == EngineSpec => []SnapshotDescribesText
<1>1. EngineInit => EngineInv
  BY EngineStart
<1>2. EngineInv /\ [EngineNext]_engineVars => EngineInv'
  BY EngineSteps
<1>3. EngineInv => SnapshotDescribesText
  BY InvDescribes
<1> QED BY <1>1, <1>2, <1>3, PTL DEF EngineSpec

(***************************************************************************)
(* The dirty range.                                                        *)
(***************************************************************************)
CoveredBy(new, old, range) ==
  LET behind == Len(new) - range[2]
  IN  /\ range[1] <= Len(old) /\ behind <= Len(old) - range[1]
      /\ \A n \in 1 .. range[1] : new[n] = old[n]
      /\ \A n \in 0 .. behind - 1 : SameBlock(new[Len(new) - n], old[Len(old) - n])

LEMMA AllIsCovered ==
  ASSUME NEW A, NEW B, NEW new \in Seq(A), NEW old \in Seq(B)
  PROVE  CoveredBy(new, old, <<0, Len(new)>>)
<1> DEFINE n == Len(new)
           m == Len(old)
<1>1. n \in Nat /\ m \in Nat
  OBVIOUS
<1>2. <<0, n>>[1] = 0 /\ <<0, n>>[2] = n
  OBVIOUS
<1> HIDE DEF n, m
<1>3. 0 <= m /\ n - n <= m - 0 /\ 1 .. 0 = {} /\ 0 .. n - n - 1 = {}
  BY <1>1
<1> QED BY <1>2, <1>3 DEF CoveredBy, n, m

LEMMA SpliceIsCovered ==
  ASSUME NEW A, NEW B, NEW old \in Seq(A), NEW p \in Nat, NEW q \in Nat, p <= q, q <= Len(old),
         SubSeq(old, 1, p) \in Seq(B), NEW middle \in Seq(B), NEW suffix \in Seq(B),
         Len(suffix) = Len(old) - q,
         \A n \in 1 .. Len(suffix) : SameBlock(suffix[n], old[q + n])
  PROVE  CoveredBy(SubSeq(old, 1, p) \o middle \o suffix, old, <<p, p + Len(middle)>>)
<1> DEFINE prefix == SubSeq(old, 1, p)
           c    == Len(middle)
           d    == Len(suffix)
           m    == Len(old)
           both == prefix \o middle
           new  == both \o suffix
<1>0. m \in Nat /\ c \in Nat /\ d \in Nat
  OBVIOUS
<1>1. prefix \in Seq(B) /\ Len(prefix) = p /\ \A n \in 1 .. p : prefix[n] = old[n]
  <2>1. p <= Len(old) /\ 0 \in Nat /\ 0 <= p /\ 0 + 1 = 1 /\ p - 0 = p
    BY <1>0
  <2>2. /\ Len(SubSeq(old, 0 + 1, p)) = p - 0
        /\ \A n \in 1 .. p - 0 : SubSeq(old, 0 + 1, p)[n] = old[0 + n]
    BY <2>1, Extract
  <2>3. SubSeq(old, 0 + 1, p) = prefix
    BY <2>1
  <2> HIDE DEF prefix
  <2>4. \A n \in 1 .. p : prefix[n] = old[n]
    <3> TAKE n \in 1 .. p
    <3>1. 0 + n = n
      OBVIOUS
    <3> QED BY <2>1, <2>2, <2>3, <3>1
  <2>5. prefix \in Seq(B)
    BY DEF prefix
  <2> QED BY <2>1, <2>2, <2>3, <2>4, <2>5
<1> HIDE DEF prefix
<1>2. /\ both \in Seq(B) /\ Len(both) = p + c
      /\ \A n \in 1 .. p + c : both[n] = (IF n <= p THEN prefix[n] ELSE middle[n - p])
  <2>1. \A n \in 1 .. Len(prefix) + Len(middle) :
          (prefix \o middle)[n] = (IF n <= Len(prefix) THEN prefix[n] ELSE middle[n - Len(prefix)])
    BY <1>1, ConcatProperties
  <2>2. Len(prefix \o middle) = Len(prefix) + Len(middle) /\ prefix \o middle \in Seq(B)
    BY <1>1, ConcatProperties
  <2> QED BY <1>1, <2>1, <2>2
<1> HIDE DEF both
<1>3. /\ Len(new) = p + c + d
      /\ \A n \in 1 .. p + c + d : new[n] = (IF n <= p + c THEN both[n] ELSE suffix[n - (p + c)])
  <2> DEFINE x == Len(both)
  <2>1. /\ Len(both \o suffix) = x + d
        /\ \A n \in 1 .. x + d : (both \o suffix)[n] = (IF n <= x THEN both[n] ELSE suffix[n - x])
    <3>1. both \in Seq(B) /\ suffix \in Seq(B)
      BY <1>2
    <3> QED BY <3>1, ConcatProperties, Zenon
  <2>2. x = p + c
    BY <1>2
  <2> HIDE DEF x, c, d
  <2> QED BY <2>1, <2>2
<1>4. d = m - q /\ q <= m
  OBVIOUS
<1>5. \A n \in 1 .. d : SameBlock(suffix[n], old[q + n])
  OBVIOUS
<1> HIDE DEF new, c, d, m
<1>6. ASSUME NEW n \in 1 .. p PROVE new[n] = old[n]
  <2>1. n \in 1 .. p + c + d /\ n <= p + c /\ n \in 1 .. p + c /\ n <= p
    BY <1>0
  <2>2. new[n] = both[n]
    BY <1>3, <2>1
  <2>3. both[n] = prefix[n]
    BY <1>2, <2>1
  <2> QED BY <1>1, <2>2, <2>3
<1>7. ASSUME NEW n \in 0 .. d - 1 PROVE SameBlock(new[(p + c + d) - n], old[m - n])
  <2> DEFINE k == (p + c + d) - n
             j == d - n
  <2>1. /\ k \in 1 .. p + c + d /\ ~ (k <= p + c) /\ k - (p + c) = j /\ j \in 1 .. d /\ q + j = m - n
    BY <1>0, <1>4
  <2> HIDE DEF k, j
  <2>2. new[k] = suffix[k - (p + c)]
    BY <1>3, <2>1
  <2>3. new[k] = suffix[j]
    BY <2>1, <2>2
  <2>4. SameBlock(suffix[j], old[q + j])
    BY <1>5, <2>1
  <2>5. SameBlock(new[k], old[m - n])
    BY <2>1, <2>3, <2>4
  <2> QED BY <2>5 DEF k
<1>8. <<p, p + c>>[1] = p /\ <<p, p + c>>[2] = p + c
  OBVIOUS
<1>9. p <= m /\ p + c + d - (p + c) = d /\ d <= m - p
  BY <1>0, <1>4
<1> DEFINE range == <<p, p + c>>
           size  == p + c + d
<1> HIDE DEF range, size
<1>10. /\ range[1] = p /\ size - range[2] = d /\ Len(new) = size /\ Len(old) = m
  <2>1. range[1] = p /\ range[2] = p + c /\ Len(old) = m
    BY <1>8, Zenon DEF range, m
  <2>2. size = p + c + d
    BY DEF size
  <2>3. size - (p + c) = d
    BY <1>0, <2>2
  <2>4. Len(new) = size
    BY <1>3, <2>2, Zenon
  <2> QED BY <2>1, <2>3, <2>4, Zenon
<1>11. \A n \in 0 .. d - 1 : SameBlock(new[size - n], old[m - n])
  BY <1>7, Zenon DEF size
<1>12. CoveredBy(new, old, range)
  BY <1>6, <1>9, <1>10, <1>11, Zenon DEF CoveredBy
<1> QED BY <1>12 DEF new, both, prefix, range, c

LEMMA CallCovers ==
  ASSUME EngineInv, NEW edit \in Edits, Edit(edit)
  PROVE  CoveredBy(snapshot'.blocks, snapshot.blocks, dirty')
<1> DEFINE old == snapshot.blocks
           t2 == text'
           s2 == snapshot'
           d2 == dirty'
<1>0. old \in Seq(Placed(text)) /\ Len(old) \in Nat
  BY DEF EngineInv, Good, Laid
<1>1. t2 \in Text
  BY CallOutcome
<1>2. PICK r : /\ s2 = Snapshot(t2, r.blocks, r.lineCount) /\ d2 = r.dirty
               /\ \/ r = FullResult(t2)
                  \/ \E range, f, e : /\ Located(old, range, f, e)
                                      /\ Outcome(snapshot, text, t2, range, r)
  BY CallOutcome, Zenon
<1>3. s2.blocks = r.blocks
  BY <1>2, Zenon DEF Snapshot
<1> HIDE DEF t2, s2, d2
<1>4. CASE r = FullResult(t2)
  <2>1. r.blocks = FullParse(t2) /\ r.dirty = <<0, Len(FullParse(t2))>>
    BY <1>4, Zenon DEF FullResult, AllDirty, Result
  <2>2. FullParse(t2) \in Seq(Placed(t2))
    BY <1>1, FullParseLaid DEF Laid
  <2>3. CoveredBy(FullParse(t2), old, <<0, Len(FullParse(t2))>>)
    BY <1>0, <2>2, AllIsCovered
  <2>4. CoveredBy(s2.blocks, old, d2)
    BY <1>2, <1>3, <2>1, <2>3, Zenon
  <2> QED BY <2>4 DEF s2, d2
<1>5. CASE r # FullResult(t2)
  <2>1. PICK range, f, e : Located(old, range, f, e) /\ Outcome(snapshot, text, t2, range, r)
    BY <1>2, <1>5, Zenon
  <2>2. PICK middle, suffix \in Seq(Placed(t2)) :
          /\ r = Spliced(snapshot, t2, range, middle, suffix)
          /\ SubSeq(old, 1, range.first) \in Seq(Placed(t2))
          /\ Len(suffix) = Len(old) - range.last
          /\ \A n \in 1 .. Len(suffix) : SameBlock(suffix[n], old[range.last + n])
    BY <1>5, <2>1, Zenon DEF Outcome
  <2> DEFINE p == range.first
             q == range.last
             new == SubSeq(old, 1, p) \o middle \o suffix
             d == <<p, p + Len(middle)>>
  <2>3. p \in Nat /\ q \in Nat /\ p <= q /\ q <= Len(old)
    BY <1>0, <2>1 DEF Located
  <2>4. r.blocks = new /\ r.dirty = d
    BY <2>2, Zenon DEF Spliced, Result
  <2>5. CoveredBy(new, old, d)
    <3>1. /\ SubSeq(old, 1, p) \in Seq(Placed(t2)) /\ Len(suffix) = Len(old) - q
          /\ \A n \in 1 .. Len(suffix) : SameBlock(suffix[n], old[q + n])
      BY <2>2
    <3> HIDE DEF p, q, old
    <3> QED BY <1>0, <2>3, <3>1, SpliceIsCovered
  <2> HIDE DEF new, d
  <2>6. CoveredBy(s2.blocks, old, d2)
    BY <1>2, <1>3, <2>4, <2>5, Zenon
  <2> QED BY <2>6 DEF s2, d2
<1> QED BY <1>4, <1>5

(* Outside of the dirty range of a call nothing is to be restyled: the     *)
(* blocks before it are the old ones, those behind it have the kind and    *)
(* the lines of the old ones, in their order (find_overlap_range and the   *)
(* splice in incremental_update).                                          *)
THEOREM OnlyDirtyChanges == EngineSpec => DirtyRangeCovers
<1> DEFINE Covers == CoveredBy(snapshot'.blocks, snapshot.blocks, dirty')
<1>1. EngineInit => EngineInv
  BY EngineStart
<1>2. EngineInv /\ [EngineNext]_engineVars => EngineInv'
  BY EngineSteps
<1>3. EngineInv /\ [EngineNext]_engineVars => [Covers]_engineVars
  BY CallCovers DEF EngineNext
<1>4. [Covers]_engineVars
        <=> [ LET new    == snapshot'.blocks
                  old    == snapshot.blocks
                  behind == Len(new) - dirty'[2]
              IN  /\ dirty'[1] <= Len(old) /\ behind <= Len(old) - dirty'[1]
                  /\ \A n \in 1 .. dirty'[1] : new[n] = old[n]
                  /\ \A n \in 0 .. behind - 1 : SameBlock(new[Len(new) - n], old[Len(old) - n])
            ]_engineVars
  BY Zenon DEF CoveredBy
<1> HIDE DEF Covers
<1> QED BY <1>1, <1>2, <1>3, <1>4, PTL DEF EngineSpec, DirtyRangeCovers

(***************************************************************************)
(* A host that writes calm lines.                                          *)
(***************************************************************************)
CalmInv ==
  /\ EngineInv
  /\ alphabet \subseteq CalmLine /\ text.lines \in Seq(CalmLine)
  /\ AllRuled(text, snapshot.blocks)

LEMMA CalmStart == EngineInit /\ alphabet \subseteq CalmLine => CalmInv
<1> SUFFICES ASSUME EngineInit, alphabet \subseteq CalmLine PROVE CalmInv
  OBVIOUS
<1>1. EngineInv
  BY EngineStart
<1>2. PICK n \in 0 .. MaxLines, ended \in BOOLEAN :
        \E ls \in [1 .. n -> alphabet] : text = [lines |-> ls, ended |-> ended]
  BY DEF EngineInit
<1>3. PICK ls \in [1 .. n -> alphabet] : text = [lines |-> ls, ended |-> ended]
  BY <1>2
<1>4. text.lines \in Seq(CalmLine)
  <2>1. n \in Nat
    BY IncrementalAssumption
  <2>2. ls \in [1 .. n -> CalmLine]
    BY <1>3
  <2>3. ls \in Seq(CalmLine)
    BY <2>1, <2>2
  <2> QED BY <1>3, <2>3
<1>5. snapshot.blocks = FullParse(text)
  <2>1. snapshot = Snapshot(text, FullParse(text), Len(text.lines))
    BY DEF EngineInit
  <2> QED BY <2>1, Zenon DEF Snapshot
<1>6. AllRuled(text, snapshot.blocks)
  BY <1>1, <1>4, <1>5, FullParseRuled DEF EngineInv
<1> QED BY <1>1, <1>4, <1>6 DEF CalmInv

\* What the host leaves and what it writes are calm.
LEMMA EditedCalm ==
  ASSUME alphabet \subseteq CalmLine, text.lines \in Seq(CalmLine), NEW r \in Replacements
  PROVE  Edited(r).lines \in Seq(CalmLine)
<1> DEFINE ls   == text.lines
           ins  == r.inserted
           head == SubSeq(ls, 1, r.from)
           rest == SubSeq(ls, r.from + r.removed + 1, Len(ls))
<1>1. /\ r.from \in Nat /\ r.from <= Len(ls) /\ r.removed \in Nat
      /\ ins \in UNION { [1 .. n -> alphabet] : n \in 0 .. MaxInserted }
  BY IncrementalAssumption DEF Replacements
<1>2. ins \in Seq(CalmLine)
  <2>1. PICK n \in 0 .. MaxInserted : ins \in [1 .. n -> alphabet]
    BY <1>1
  <2>2. n \in Nat
    BY IncrementalAssumption
  <2>3. ins \in [1 .. n -> CalmLine]
    BY <2>1
  <2> HIDE DEF ins
  <2> QED BY <2>2, <2>3
<1>3. Edited(r).lines = head \o ins \o rest
  BY Zenon DEF Edited
<1> DEFINE p == r.from
           q == r.from + r.removed
           m == Len(ls)
<1>4. ls \in Seq(CalmLine) /\ m \in Nat /\ p \in Nat /\ p <= m /\ q \in Nat
  BY <1>1
<1>5. head \in Seq(CalmLine) /\ rest \in Seq(CalmLine)
  <2> HIDE DEF ls, p, q
  <2>1. SubSeq(ls, 1, p) \in Seq(CalmLine)
    BY <1>4
  <2>2. SubSeq(ls, q + 1, m) \in Seq(CalmLine)
    BY <1>4
  <2> QED BY <2>1, <2>2 DEF p, q
<1> HIDE DEF head, ins, rest
<1>6. head \o ins \in Seq(CalmLine)
  BY <1>2, <1>5
<1>7. head \o ins \o rest \in Seq(CalmLine)
  BY <1>5, <1>6
<1> QED BY <1>3, <1>7

LEMMA CalmSteps == CalmInv /\ [EngineNext]_engineVars => CalmInv'
<1> SUFFICES ASSUME CalmInv, [EngineNext]_engineVars PROVE CalmInv'
  OBVIOUS
<1>0. EngineInv'
  BY EngineSteps DEF CalmInv
<1>1. CASE EngineNext
  <2>1. PICK edit \in Edits : Edit(edit)
    BY <1>1 DEF EngineNext
  <2> DEFINE t2 == text'
             s2 == snapshot'
  <2>2. t2 \in Text /\ alphabet' = alphabet
    BY <2>1, CallOutcome DEF CalmInv
  <2>3. PICK r : /\ s2 = Snapshot(t2, r.blocks, r.lineCount)
                 /\ \/ r = FullResult(t2)
                    \/ \E range, f, e : /\ Located(snapshot.blocks, range, f, e)
                                        /\ Outcome(snapshot, text, t2, range, r)
    BY <2>1, CallOutcome, Zenon DEF CalmInv
  <2>4. t2.lines \in Seq(CalmLine)
    <3>1. PICK q \in Replacements : edit \in { Report(q, t) : t \in { x \in {Edited(q)} : IsText(x) } }
      BY <2>1, Zenon DEF Edits
    <3>a. edit = Report(q, Edited(q))
      BY <3>1
    <3>2. edit.text = Edited(q)
      BY <3>a DEF Report
    <3>3. t2 = Edited(q)
      BY <2>1, <3>2 DEF Edit
    <3>4. Edited(q).lines \in Seq(CalmLine)
      BY EditedCalm DEF CalmInv
    <3> QED BY <3>3, <3>4, Zenon
  <2>5. s2.blocks = r.blocks
    BY <2>3, Zenon DEF Snapshot
  <2> HIDE DEF t2, s2
  <2>6. AllRuled(t2, r.blocks)
    <3>1. CASE r = FullResult(t2)
      <4>1. r.blocks = FullParse(t2)
        BY <3>1, Zenon DEF FullResult, AllDirty, Result
      <4> QED BY <2>2, <2>4, <4>1, FullParseRuled DEF t2
    <3>2. CASE r # FullResult(t2)
      <4>1. PICK range : Outcome(snapshot, text, t2, range, r)
        BY <2>3, <3>2, Zenon
      <4> DEFINE old == snapshot.blocks
      <4>2. PICK middle, suffix \in Seq(Placed(t2)) :
              /\ r = Spliced(snapshot, t2, range, middle, suffix)
              /\ StaysRuled(text, old, t2, SubSeq(old, 1, range.first) \o middle \o suffix)
        BY <3>2, <4>1, Zenon DEF Outcome
      <4>3. r.blocks = SubSeq(old, 1, range.first) \o middle \o suffix
        BY <4>2, Zenon DEF Spliced, Result
      <4>4. AllRuled(text, old)
        BY DEF CalmInv
      <4> QED BY <2>4, <4>2, <4>3, <4>4, Zenon DEF StaysRuled
    <3> QED BY <3>1, <3>2
  <2>7. AllRuled(t2, s2.blocks)
    BY <2>5, <2>6, Zenon
  <2> QED BY <1>0, <2>2, <2>4, <2>7 DEF CalmInv, AllRuled, t2, s2
<1>2. CASE UNCHANGED engineVars
  BY <1>0, <1>2 DEF CalmInv, AllRuled, engineVars
<1> QED BY <1>1, <1>2

LEMMA CalmMatches == CalmInv => MatchesFullParse
<1> SUFFICES ASSUME CalmInv PROVE MatchesFullParse
  OBVIOUS
<1>1. /\ text \in Text /\ text.lines \in Seq(CalmLine)
      /\ Laid(text, snapshot.blocks, 0, Len(text.lines)) /\ AllRuled(text, snapshot.blocks)
  BY DEF CalmInv, EngineInv, Good
<1>2. snapshot.blocks = FullParse(text)
  BY <1>1, RuledIsParse
<1> QED BY <1>2 DEF MatchesFullParse

(* While a host writes calm lines, the blocks of every call, re-parsed in  *)
(* part or moved, are those of a parse of the whole text, whatever edits   *)
(* came before (incremental_update against parse_editable).                *)
THEOREM CalmTextsMatch == EngineSpec /\ alphabet \subseteq CalmLine => []MatchesFullParse
<1>1. EngineInit /\ alphabet \subseteq CalmLine => CalmInv
  BY CalmStart
<1>2. CalmInv /\ [EngineNext]_engineVars => CalmInv'
  BY CalmSteps
<1>3. CalmInv => MatchesFullParse
  BY CalmMatches
<1> QED BY <1>1, <1>2, <1>3, PTL DEF EngineSpec
=============================================================================
