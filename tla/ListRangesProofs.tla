-------------------------- MODULE ListRangesProofs --------------------------
(***************************************************************************)
(* Proofs about ListRanges, for every document.                            *)
(***************************************************************************)
EXTENDS ListRanges, Bounds, SequenceTheorems

Numbers == 1 .. Len(items)

\* Is item n on the stack s?
Has(s, n) == \E k \in DOMAIN s : s[k].item = n

(***************************************************************************)
(* The inductive invariant.                                                *)
(***************************************************************************)
\* The stack is a path of the tree, outermost item first.
Increasing == \A j, k \in 1 .. Len(stack) : j < k => stack[j].item < stack[k].item

Path ==
  \A k \in 1 .. Len(stack) :
    items[stack[k].item].parent = IF k = 1 THEN 0 ELSE stack[k - 1].item

\* Items start in the order of their numbers, and end before what is to come.
Ordered ==
  \A a \in Numbers :
    /\ items[a].first < items[a].last
    /\ \A b \in Numbers : a < b => items[a].first < items[b].first

Behind == \A n \in Numbers : \A m \in next .. Len(document) : items[n].last <= document[m].first

\* No item ends behind one that is open.
Reach == \A n, a \in Numbers : Has(stack, a) => items[n].last <= items[a].last

\* An item holds another whole, and stays open with it.
Held ==
  \A a, b \in Numbers :
    a < b /\ items[a].last > items[b].first =>
      /\ items[b].last <= items[a].last
      /\ Has(stack, b) => Has(stack, a)

Parents ==
  \A b \in Numbers :
    /\ items[b].parent # 0 => items[b].parent \in Holders(b)
    /\ \A a \in Holders(b) : a <= items[b].parent

Tree == Increasing /\ Path /\ Ordered /\ Behind /\ Reach /\ Held /\ Parents

IInv == TypeOK /\ Tree

(***************************************************************************)
(* Popping the stack.                                                      *)
(***************************************************************************)
LEMMA PrefixOf ==
  ASSUME NEW A, NEW s \in Seq(A), NEW k \in 0 .. Len(s)
  PROVE  /\ SubSeq(s, 1, k) \in Seq(A)
         /\ Len(SubSeq(s, 1, k)) = k
         /\ \A j \in 1 .. k : SubSeq(s, 1, k)[j] = s[j]
OBVIOUS

LEMMA PopToPrefix ==
  ASSUME TypeOK, NEW keeps \in SUBSET (1 .. Len(stack))
  PROVE  \E k \in 0 .. Len(stack) :
           /\ PopTo(keeps) \in Seq([item : Numbers, content : Nat])
           /\ Len(PopTo(keeps)) = k
           /\ \A j \in 1 .. k : PopTo(keeps)[j] = stack[j]
           /\ k # 0 => k \in keeps
           /\ \A j \in keeps : j <= k
<1> DEFINE S == keeps \cup {0}
           k == Max(S)
<1>1. stack \in Seq([item : Numbers, content : Nat]) /\ Len(stack) \in Nat
  BY DEF TypeOK, Numbers
<1>2. S \in SUBSET (0 .. Len(stack)) /\ S # {}
  BY <1>1
<1>3. k \in S /\ \A j \in S : j <= k
  <2> HIDE DEF S
  <2> QED BY <1>1, <1>2, MaxIsGreatest
<1>4. k \in 0 .. Len(stack)
  BY <1>2, <1>3
<1>5. PopTo(keeps) = SubSeq(stack, 1, k)
  BY DEF PopTo
<1> HIDE DEF k
<1>6. /\ SubSeq(stack, 1, k) \in Seq([item : Numbers, content : Nat])
      /\ Len(SubSeq(stack, 1, k)) = k
      /\ \A j \in 1 .. k : SubSeq(stack, 1, k)[j] = stack[j]
  BY <1>1, <1>4, PrefixOf
<1> QED BY <1>3, <1>4, <1>5, <1>6

LEMMA ExtendProperties ==
  ASSUME NEW list \in Seq(Item), NEW open, NEW last \in Nat
  PROVE  /\ Extend(list, open, last) \in Seq(Item)
         /\ Len(Extend(list, open, last)) = Len(list)
         /\ \A n \in 1 .. Len(list) :
              Extend(list, open, last)[n] =
                IF Has(open, n)
                THEN [list[n] EXCEPT !.last = last] ELSE list[n]
<1> DEFINE grown(n) == IF Has(open, n)
                       THEN [list[n] EXCEPT !.last = last] ELSE list[n]
<1>1. DOMAIN list = 1 .. Len(list) /\ Len(list) \in Nat
  OBVIOUS
<1>2. Extend(list, open, last) = [n \in 1 .. Len(list) |-> grown(n)]
  BY <1>1 DEF Extend, Has
<1>3. ASSUME NEW n \in 1 .. Len(list) PROVE grown(n) \in Item
  <2>1. list[n] \in Item
    OBVIOUS
  <2>2. [list[n] EXCEPT !.last = last] \in Item
    BY <2>1 DEF Item
  <2> QED BY <2>1, <2>2
<1> HIDE DEF grown
<1>4. [n \in 1 .. Len(list) |-> grown(n)] \in Seq(Item)
  BY <1>1, <1>3
<1>5. Len([n \in 1 .. Len(list) |-> grown(n)]) = Len(list)
  BY <1>1, <1>4
<1>6. \A n \in 1 .. Len(list) : Extend(list, open, last)[n] = grown(n)
  BY <1>2
<1> QED BY <1>2, <1>4, <1>5, <1>6 DEF grown

(***************************************************************************)
(* What a block that is not empty does.                                    *)
(***************************************************************************)
\* An item of before grows if it stays open; none opens again, and none
\* closes while one inside of it stays.
OldGrow ==
  \A n \in Numbers :
    /\ items'[n] = [items[n] EXCEPT !.last = IF Has(stack', n) THEN block.last ELSE items[n].last]
    /\ Has(stack', n) => Has(stack, n)
    /\ \A a \in Numbers : a < n /\ Has(stack', n) /\ Has(stack, a) => Has(stack', a)

\* A new item is the block; its parent is the last of those that stay open.
NewFits ==
  \A n \in Numbers' \ Numbers :
    /\ n = Len(items) + 1
    /\ items'[n].first = block.first /\ items'[n].last = block.last
    /\ Has(stack', n)
    /\ items'[n].parent # 0 => items'[n].parent \in Numbers /\ Has(stack', items'[n].parent)
    /\ \A a \in Numbers : Has(stack', a) => a <= items'[n].parent

Grows ==
  /\ items' \in Seq(Item)
  /\ stack' \in Seq([item : Numbers', content : Nat])
  /\ Len(items') \in {Len(items), Len(items) + 1}
  /\ OldGrow /\ NewFits
  /\ Increasing' /\ Path'

LEMMA StackItem ==
  ASSUME TypeOK, NEW j \in 1 .. Len(stack)
  PROVE  stack[j].item \in Numbers
<1>1. stack[j] \in [item : Numbers, content : Nat]
  BY ElementOfSeq DEF TypeOK, Numbers
<1> QED BY <1>1

LEMMA BlockType ==
  ASSUME TypeOK, next <= Len(document)
  PROVE  block \in ListedBlock /\ block.first < block.last
BY DEF TypeOK, IsDocument, block

\* Facts about a popped stack.
LEMMA PrefixStays ==
  ASSUME TypeOK, Increasing, NEW k \in 0 .. Len(stack), NEW kept, Len(kept) = k,
         kept \in Seq([item : Numbers, content : Nat]),
         \A j \in 1 .. k : kept[j] = stack[j]
  PROVE  /\ \A n \in Numbers :
              /\ Has(kept, n) => Has(stack, n)
              /\ \A a \in Numbers :
                   a < n /\ Has(kept, n) /\ Has(stack, a) =>
                     Has(kept, a)
         /\ Top(kept) # 0 => Top(kept) \in Numbers /\ Has(kept, Top(kept))
         /\ \A j \in 1 .. k : kept[j].item \in Numbers /\ kept[j].item <= Top(kept)
         /\ Top(kept) = IF k = 0 THEN 0 ELSE stack[k].item
         /\ Top(kept) \in Nat
<1>1. stack \in Seq([item : Numbers, content : Nat]) /\ Len(stack) \in Nat /\ Len(items) \in Nat
  BY DEF TypeOK, Numbers
<1>2. DOMAIN kept = 1 .. k /\ DOMAIN stack = 1 .. Len(stack)
  BY <1>1
<1>3. \A j \in 1 .. Len(stack) : stack[j].item \in Numbers
  BY StackItem
<1>4. \A j \in 1 .. k : kept[j].item \in Numbers
  BY <1>3
<1>5. ASSUME NEW n \in Numbers, NEW j \in 1 .. k, kept[j].item = n
      PROVE  Has(stack, n)
  BY <1>2, <1>5 DEF Has
<1>6. ASSUME NEW n \in Numbers, NEW j \in 1 .. k, kept[j].item = n,
             NEW a \in Numbers, a < n, Has(stack, a)
      PROVE  \E i \in 1 .. k : kept[i].item = a
  <2>1. PICK i \in 1 .. Len(stack) : stack[i].item = a
    BY <1>2, <1>6 DEF Has
  <2>2. stack[j].item = n
    BY <1>6
  <2>3. i < j
    <3>1. CASE i = j
      BY <2>1, <2>2, <1>1, <1>6, <3>1, SMTT(20) DEF Numbers
    <3>2. CASE j < i
      <4>1. stack[j].item < stack[i].item
        BY <1>1, <3>2 DEF Increasing
      <4> QED BY <2>1, <2>2, <4>1, <1>1, <1>6 DEF Numbers
    <3> QED BY <3>1, <3>2
  <2> QED BY <2>1, <2>3
<1>7. kept = <<>> <=> k = 0
  BY <1>2
<1>8. Top(kept) = IF k = 0 THEN 0 ELSE stack[k].item
  BY <1>2, <1>7 DEF Top
<1>9. ASSUME NEW j \in 1 .. k PROVE kept[j].item <= Top(kept)
  <2>1. k \in 1 .. Len(stack) /\ j \in 1 .. Len(stack) /\ (j < k \/ j = k)
    BY <1>1
  <2>2. Top(kept) = stack[k].item /\ kept[j].item = stack[j].item
    BY <1>8, <2>1
  <2>3. stack[j].item \in Nat /\ stack[k].item \in Nat
    BY <1>3, <2>1 DEF Numbers
  <2>4. j < k => stack[j].item < stack[k].item
    BY <2>1 DEF Increasing
  <2> QED BY <2>1, <2>2, <2>3, <2>4
<1>10. Top(kept) # 0 => Top(kept) \in Numbers /\ \E j \in 1 .. k : kept[j].item = Top(kept)
  BY <1>3, <1>8
<1>11. Top(kept) \in Nat
  BY <1>1, <1>10 DEF Numbers
<1>12. \A n \in Numbers :
         /\ Has(kept, n) => Has(stack, n)
         /\ \A a \in Numbers : a < n /\ Has(kept, n) /\ Has(stack, a) => Has(kept, a)
  <2> SUFFICES ASSUME NEW n \in Numbers, NEW j \in 1 .. k, kept[j].item = n
               PROVE  /\ Has(stack, n)
                      /\ \A a \in Numbers : a < n /\ Has(stack, a) => \E i \in 1 .. k : kept[i].item = a
    BY <1>2 DEF Has
  <2> QED BY <1>5, <1>6
<1>13. Top(kept) # 0 => Has(kept, Top(kept))
  BY <1>2, <1>10 DEF Has
<1> QED BY <1>4, <1>8, <1>9, <1>10, <1>11, <1>12, <1>13

LEMMA BodyGrows ==
  ASSUME IInv, next <= Len(document), AddBody
  PROVE  Grows
<1>0. TypeOK /\ Increasing /\ Path
  BY DEF IInv, Tree
<1>1. /\ stack \in Seq([item : Numbers, content : Nat]) /\ Len(stack) \in Nat
      /\ items \in Seq(Item) /\ Len(items) \in Nat
      /\ DOMAIN stack = 1 .. Len(stack)
  BY <1>0 DEF TypeOK, Numbers
<1>2. block.last \in Nat
  BY <1>0, BlockType DEF ListedBlock
<1>3. BodyKeeps \in SUBSET (1 .. Len(stack))
  BY <1>1 DEF BodyKeeps
<1>4. PICK k \in 0 .. Len(stack) :
        /\ stack' \in Seq([item : Numbers, content : Nat])
        /\ Len(stack') = k
        /\ \A j \in 1 .. k : stack'[j] = stack[j]
  BY <1>0, <1>3, PopToPrefix DEF AddBody
<1>5. items' = Extend(items, stack', block.last)
  BY DEF AddBody
<1>6. /\ items' \in Seq(Item) /\ Len(items') = Len(items)
      /\ \A n \in Numbers :
           items'[n] = IF Has(stack', n) THEN [items[n] EXCEPT !.last = block.last] ELSE items[n]
  BY <1>1, <1>2, <1>5, ExtendProperties DEF Numbers
<1>7. Numbers' = Numbers
  BY <1>6 DEF Numbers
<1>8. /\ \A n \in Numbers :
           /\ Has(stack', n) => Has(stack, n)
           /\ \A a \in Numbers : a < n /\ Has(stack', n) /\ Has(stack, a) => Has(stack', a)
  BY <1>0, <1>4, PrefixStays
<1>9. OldGrow
  <2> SUFFICES ASSUME NEW n \in Numbers
               PROVE  items'[n] = [items[n] EXCEPT !.last = IF Has(stack', n) THEN block.last ELSE items[n].last]
    BY <1>8 DEF OldGrow
  <2>1. items[n] \in Item
    BY <1>1, ElementOfSeq DEF Numbers
  <2>2. items[n] = [items[n] EXCEPT !.last = items[n].last]
    BY <2>1 DEF Item
  <2> QED BY <1>6, <2>2
<1>10. NewFits
  BY <1>7 DEF NewFits
<1>11. Increasing'
  BY <1>0, <1>1, <1>4 DEF Increasing
<1>12. Path'
  <2> SUFFICES ASSUME NEW j \in 1 .. k
               PROVE  items'[stack'[j].item].parent = IF j = 1 THEN 0 ELSE stack'[j - 1].item
    BY <1>4 DEF Path
  <2>1. stack[j].item \in Numbers
    BY <1>0, <1>1, StackItem
  <2>2. items'[stack[j].item].parent = items[stack[j].item].parent
    <3>1. items[stack[j].item] \in Item
      BY <1>1, <2>1, ElementOfSeq DEF Numbers
    <3> QED BY <1>6, <2>1, <3>1 DEF Item
  <2> QED BY <1>0, <1>1, <1>4, <2>2 DEF Path
<1> QED BY <1>4, <1>6, <1>7, <1>9, <1>10, <1>11, <1>12 DEF Grows

LEMMA ItemGrows ==
  ASSUME IInv, next <= Len(document), AddItem
  PROVE  Grows
<1> DEFINE kept  == PopTo(ItemKeeps)
           own   == Len(items) + 1
           entry == [item |-> own, content |-> block.content]
           list  == Append(items, ItemAfter(kept))
<1>0. TypeOK /\ Increasing /\ Path
  BY DEF IInv, Tree
<1>1. /\ stack \in Seq([item : Numbers, content : Nat]) /\ Len(stack) \in Nat
      /\ items \in Seq(Item) /\ Len(items) \in Nat
      /\ DOMAIN stack = 1 .. Len(stack)
  BY <1>0 DEF TypeOK, Numbers
<1>2. block \in ListedBlock /\ block.last \in Nat /\ block.content \in Nat
  BY <1>0, BlockType DEF ListedBlock
<1>3. ItemKeeps \in SUBSET (1 .. Len(stack))
  BY <1>1 DEF ItemKeeps
<1>4. PICK k \in 0 .. Len(stack) :
        /\ kept \in Seq([item : Numbers, content : Nat])
        /\ Len(kept) = k
        /\ \A j \in 1 .. k : kept[j] = stack[j]
  BY <1>0, <1>3, PopToPrefix
<1>5. /\ \A n \in Numbers :
           /\ Has(kept, n) => Has(stack, n)
           /\ \A a \in Numbers :
                a < n /\ Has(kept, n) /\ Has(stack, a) =>
                  Has(kept, a)
      /\ Top(kept) # 0 => Top(kept) \in Numbers /\ Has(kept, Top(kept))
      /\ \A j \in 1 .. k : kept[j].item \in Numbers /\ kept[j].item <= Top(kept)
      /\ Top(kept) = IF k = 0 THEN 0 ELSE stack[k].item
      /\ Top(kept) \in Nat
  <2> HIDE DEF kept
  <2> QED BY <1>0, <1>4, PrefixStays
<1>6. stack' = Append(kept, entry) /\ items' = Extend(list, stack', block.last)
  BY DEF AddItem, Open
<1>7. ItemAfter(kept) \in Item /\ ItemAfter(kept).first = block.first
      /\ ItemAfter(kept).last = block.last /\ ItemAfter(kept).parent = Top(kept)
  <2>1. Group(Previous(kept), own) \in Nat
    <3>1. CASE Previous(kept) = {}
      BY <1>1, <3>1 DEF Group
    <3>2. CASE Previous(kept) # {}
      <4>1. PICK n \in Previous(kept) : n = CHOOSE m \in Previous(kept) : TRUE
        BY <3>2
      <4>2. n \in Numbers
        <5>1. PICK j \in DOMAIN stack : n = stack[j].item
          BY <4>1 DEF Previous
        <5> QED BY <1>0, <1>1, <5>1, StackItem
      <4>3. items[n] \in Item
        BY <1>1, <4>2, ElementOfSeq DEF Numbers
      <4>4. Group(Previous(kept), own) = items[n].group
        BY <3>2, <4>1 DEF Group
      <4> QED BY <4>3, <4>4 DEF Item
    <3> QED BY <3>1, <3>2
  <2> HIDE DEF kept
  <2> QED BY <1>2, <1>5, <2>1 DEF ItemAfter, Item, ListedBlock
<1> HIDE DEF kept
<1>8. /\ list \in Seq(Item) /\ Len(list) = own
      /\ \A n \in Numbers : list[n] = items[n]
      /\ list[own] = ItemAfter(kept)
  BY <1>1, <1>7 DEF Numbers
<1>9. /\ Len(stack') = k + 1 /\ DOMAIN stack' = 1 .. k + 1
      /\ \A j \in 1 .. k : stack'[j] = kept[j]
      /\ stack'[k + 1] = entry
  BY <1>4, <1>6
<1>10. /\ items' \in Seq(Item) /\ Len(items') = own
       /\ \A n \in 1 .. own :
            items'[n] = IF Has(stack', n) THEN [list[n] EXCEPT !.last = block.last] ELSE list[n]
  <2> HIDE DEF list
  <2>1. list \in Seq(Item)
    BY <1>8
  <2>2. /\ items' \in Seq(Item) /\ Len(items') = Len(list)
        /\ \A n \in 1 .. Len(list) :
             items'[n] = IF Has(stack', n) THEN [list[n] EXCEPT !.last = block.last] ELSE list[n]
    BY <1>2, <1>6, <2>1, ExtendProperties
  <2> QED BY <1>8, <2>2
<1> HIDE DEF list
<1>11. Numbers' = 1 .. own /\ Numbers \subseteq Numbers' /\ own \notin Numbers /\ own \in Numbers'
       /\ \A n \in Numbers' : n \notin Numbers => n = own
  BY <1>1, <1>10 DEF Numbers
<1>12. stack' \in Seq([item : Numbers', content : Nat])
  <2>1. kept \in Seq([item : Numbers', content : Nat])
    <3>1. [item : Numbers, content : Nat] \subseteq [item : Numbers', content : Nat]
      BY <1>11
    <3> QED BY <1>4, <3>1, SeqMonotonic
  <2>2. entry \in [item : Numbers', content : Nat]
    BY <1>2, <1>11
  <2> HIDE DEF entry
  <2> QED BY <1>6, <2>1, <2>2, AppendProperties
<1>13. \A n \in Numbers : Has(stack', n) <=> Has(kept, n)
  <2> SUFFICES ASSUME NEW n \in Numbers
               PROVE  Has(stack', n) <=> \E j \in 1 .. k : kept[j].item = n
    <3>1. DOMAIN kept = 1 .. k
      BY <1>4
    <3> QED BY <3>1 DEF Has
  <2>1. entry.item # n
    BY <1>11
  <2> HIDE DEF entry
  <2> QED BY <1>9, <2>1 DEF Has
<1>14. Has(stack', own)
  BY <1>9 DEF Has
<1>15. OldGrow
  <2> SUFFICES ASSUME NEW n \in Numbers
               PROVE  items'[n] = [items[n] EXCEPT !.last = IF Has(stack', n) THEN block.last ELSE items[n].last]
    BY <1>5, <1>13 DEF OldGrow
  <2>1. items[n] \in Item
    BY <1>1, ElementOfSeq DEF Numbers
  <2>2. items[n] = [items[n] EXCEPT !.last = items[n].last]
    BY <2>1 DEF Item
  <2> QED BY <1>8, <1>10, <1>11, <2>2
<1>16. items'[own] = ItemAfter(kept)
  <2>1. ItemAfter(kept) = [ItemAfter(kept) EXCEPT !.last = block.last]
    BY <1>7 DEF Item
  <2> QED BY <1>8, <1>10, <1>11, <2>1
<1>17. NewFits
  <2>1. \A a \in Numbers : Has(stack', a) => a <= Top(kept)
    <3>1. DOMAIN kept = 1 .. k
      BY <1>4
    <3> QED BY <1>5, <1>13, <3>1 DEF Has
  <2>2. Top(kept) # 0 => Top(kept) \in Numbers /\ Has(stack', Top(kept))
    BY <1>5, <1>13
  <2> QED BY <1>7, <1>11, <1>14, <1>16, <2>1, <2>2 DEF NewFits
<1>18. Increasing'
  <2> SUFFICES ASSUME NEW i \in 1 .. k + 1, NEW j \in 1 .. k + 1, i < j
               PROVE  stack'[i].item < stack'[j].item
    BY <1>9 DEF Increasing
  <2>1. i \in 1 .. k
    BY <1>4
  <2>2. CASE j \in 1 .. k
    <3>1. i \in 1 .. Len(stack) /\ j \in 1 .. Len(stack)
      BY <1>1, <1>4, <2>1, <2>2
    <3>2. stack[i].item < stack[j].item
      BY <1>0, <3>1 DEF Increasing
    <3> QED BY <1>4, <1>9, <2>1, <2>2, <3>2
  <2>3. CASE j = k + 1
    <3>1. kept[i].item \in Numbers
      BY <1>5, <2>1
    <3>2. stack'[i] = kept[i]
      BY <1>9, <2>1
    <3>3. stack'[j].item = own
      BY <1>9, <2>3
    <3>4. kept[i].item < own
      <4>1. \A n \in 1 .. Len(items) : n < own
        BY <1>1
      <4> QED BY <3>1, <4>1 DEF Numbers
    <3> QED BY <3>2, <3>3, <3>4
  <2>4. j \in 1 .. k \/ j = k + 1
    <3>1. k \in Nat
      BY <1>1
    <3> QED BY <3>1
  <2> QED BY <2>2, <2>3, <2>4
<1>19. Path'
  <2> SUFFICES ASSUME NEW j \in 1 .. k + 1
               PROVE  items'[stack'[j].item].parent = IF j = 1 THEN 0 ELSE stack'[j - 1].item
    BY <1>9 DEF Path
  <2>1. CASE j \in 1 .. k
    <3>1. stack[j].item \in Numbers
      <4>1. j \in 1 .. Len(stack)
        BY <1>1, <1>4, <2>1
      <4> QED BY <1>0, <4>1, StackItem
    <3>2. items[stack[j].item] \in Item
      BY <1>1, <3>1, ElementOfSeq DEF Numbers
    <3>3. items'[stack[j].item].parent = items[stack[j].item].parent
      BY <1>8, <1>10, <1>11, <3>1, <3>2 DEF Item
    <3>4. j \in 1 .. Len(stack) /\ (j # 1 => j - 1 \in 1 .. k)
      BY <1>1, <1>4, <2>1
    <3>5. items[stack[j].item].parent = IF j = 1 THEN 0 ELSE stack[j - 1].item
      BY <1>0, <3>4 DEF Path
    <3> QED BY <1>4, <1>9, <2>1, <3>3, <3>4, <3>5
  <2>2. CASE j = k + 1
    <3>1. items'[stack'[j].item].parent = Top(kept)
      BY <1>7, <1>9, <1>16, <2>2
    <3>2. k # 0 => stack'[k] = stack[k]
      BY <1>4, <1>9
    <3> QED BY <1>4, <1>5, <2>2, <3>1, <3>2
  <2> QED BY <1>4, <2>1, <2>2
<1> QED BY <1>10, <1>12, <1>15, <1>17, <1>18, <1>19 DEF Grows

(***************************************************************************)
(* The tree after a block.                                                 *)
(***************************************************************************)
\* All that the proofs below need of a step that takes a block: where the
\* items of before and a new one are.
LEMMA AfterBlock ==
  ASSUME IInv, next <= Len(document), Grows
  PROVE  /\ \A n \in Numbers :
              /\ n \in Numbers'
              /\ items[n].first \in Nat /\ items[n].last \in Nat
              /\ items[n].first < items[n].last /\ items[n].last <= block.first
              /\ items'[n].first = items[n].first /\ items'[n].parent = items[n].parent
              /\ items'[n].indent = items[n].indent /\ items'[n].marker = items[n].marker
              /\ items'[n].group = items[n].group
              /\ items'[n].last = IF Has(stack', n) THEN block.last ELSE items[n].last
         /\ \A n \in Numbers' : n \notin Numbers =>
              /\ items'[n].first = block.first /\ items'[n].last = block.last
              /\ Has(stack', n) /\ \A a \in Numbers : a < n
         /\ block.first \in Nat /\ block.last \in Nat /\ block.first < block.last
         /\ Len(items) \in Nat /\ Len(items') \in Nat
<1>1. Len(items) \in Nat /\ Len(items') \in Nat /\ items \in Seq(Item) /\ TypeOK
  BY DEF IInv, TypeOK, Grows
<1>2. block.first \in Nat /\ block.last \in Nat /\ block.first < block.last
  BY <1>1, BlockType DEF ListedBlock
<1>3. next \in next .. Len(document)
  BY <1>1 DEF TypeOK, IsDocument
<1>4. ASSUME NEW n \in Numbers
      PROVE  /\ n \in Numbers'
             /\ items[n].first \in Nat /\ items[n].last \in Nat
              /\ items[n].first < items[n].last /\ items[n].last <= block.first
             /\ items'[n].first = items[n].first /\ items'[n].parent = items[n].parent
              /\ items'[n].indent = items[n].indent /\ items'[n].marker = items[n].marker
              /\ items'[n].group = items[n].group
             /\ items'[n].last = IF Has(stack', n) THEN block.last ELSE items[n].last
  <2>1. items[n] \in Item
    BY <1>1, ElementOfSeq DEF Numbers
  <2>2. n \in Numbers'
    BY <1>1 DEF Numbers, Grows
  <2>3. items[n].first < items[n].last /\ items[n].last <= block.first
    BY <1>3 DEF IInv, Tree, Ordered, Behind, block
  <2>4. items'[n] = [items[n] EXCEPT !.last = IF Has(stack', n) THEN block.last ELSE items[n].last]
    BY DEF Grows, OldGrow
  <2> QED BY <2>1, <2>2, <2>3, <2>4 DEF Item
<1>5. ASSUME NEW n \in Numbers', n \notin Numbers
      PROVE  /\ items'[n].first = block.first /\ items'[n].last = block.last
             /\ Has(stack', n) /\ \A a \in Numbers : a < n
  <2>1. n = Len(items) + 1
    BY <1>5 DEF Grows, NewFits
  <2>2. items'[n].first = block.first /\ items'[n].last = block.last /\ Has(stack', n)
    BY <1>5 DEF Grows, NewFits
  <2> QED BY <1>1, <2>1, <2>2 DEF Numbers
<1> QED BY <1>1, <1>2, <1>4, <1>5

LEMMA OrderedAfter ==
  ASSUME IInv, next <= Len(document), Grows
  PROVE  Ordered'
<1> SUFFICES ASSUME NEW a \in Numbers', NEW b \in Numbers'
             PROVE  /\ items'[a].first < items'[a].last
                    /\ a < b => items'[a].first < items'[b].first
  BY DEF Ordered
<1>1. CASE a \in Numbers /\ b \in Numbers
  <2>1. a < b => items[a].first < items[b].first
    BY <1>1 DEF IInv, Tree, Ordered
  <2> QED BY <1>1, <2>1, AfterBlock
<1>2. CASE a \in Numbers /\ b \notin Numbers
  BY <1>2, AfterBlock
<1>3. CASE a \notin Numbers /\ b \in Numbers
  BY <1>3, AfterBlock DEF Numbers
<1>4. CASE a \notin Numbers /\ b \notin Numbers
  <2>1. a = Len(items) + 1 /\ b = Len(items) + 1
    BY <1>4 DEF Grows, NewFits
  <2> QED BY <1>4, <2>1, AfterBlock
<1> QED BY <1>1, <1>2, <1>3, <1>4

LEMMA BehindAfter ==
  ASSUME IInv, next <= Len(document), Grows, next' = next + 1, document' = document
  PROVE  Behind'
<1> SUFFICES ASSUME NEW n \in Numbers', NEW m \in next + 1 .. Len(document)
             PROVE  items'[n].last <= document[m].first
  BY DEF Behind
<1>1. TypeOK /\ m \in next .. Len(document) /\ next \in Nat /\ Len(document) \in Nat
  BY DEF IInv, TypeOK, IsDocument
<1>2. block.last <= document[m].first /\ document[m].first \in Nat
  <2>1. next \in 1 .. Len(document) /\ m \in 1 .. Len(document) /\ next < m
    BY <1>1 DEF TypeOK
  <2>2. document[m] \in ListedBlock
    BY <1>1, <2>1, ElementOfSeq DEF TypeOK, IsDocument
  <2> QED BY <1>1, <2>1, <2>2 DEF TypeOK, IsDocument, block, ListedBlock
<1>3. CASE n \in Numbers
  <2>1. items[n].last <= document[m].first
    BY <1>1, <1>3 DEF IInv, Tree, Behind
  <2> QED BY <1>2, <1>3, <2>1, AfterBlock
<1>4. CASE n \notin Numbers
  BY <1>2, <1>4, AfterBlock
<1> QED BY <1>3, <1>4

LEMMA ReachAfter ==
  ASSUME IInv, next <= Len(document), Grows
  PROVE  Reach'
<1> SUFFICES ASSUME NEW n \in Numbers', NEW a \in Numbers', Has(stack', a)
             PROVE  items'[n].last <= items'[a].last
  BY DEF Reach
<1>1. items'[a].last = block.last
  BY AfterBlock
<1>2. items'[n].last <= block.last
  <2>1. CASE n \in Numbers
    BY <2>1, AfterBlock
  <2>2. CASE n \notin Numbers
    BY <2>2, AfterBlock
  <2> QED BY <2>1, <2>2
<1> QED BY <1>1, <1>2

LEMMA HeldAfter ==
  ASSUME IInv, next <= Len(document), Grows
  PROVE  Held'
<1> SUFFICES ASSUME NEW a \in Numbers', NEW b \in Numbers', a < b, items'[a].last > items'[b].first
             PROVE  items'[b].last <= items'[a].last /\ (Has(stack', b) => Has(stack', a))
  BY DEF Held
<1>1. CASE Has(stack', a)
  BY <1>1, ReachAfter DEF Reach
<1>2. CASE ~ Has(stack', a)
  <2>1. a \in Numbers /\ items'[a].last = items[a].last
    BY <1>2, AfterBlock
  <2>2. b \in Numbers
    BY <2>1, AfterBlock
  <2>3. items[b].last <= items[a].last /\ (Has(stack, b) => Has(stack, a))
    <3>1. items[a].last > items[b].first
      BY <2>1, <2>2, AfterBlock
    <3> QED BY <2>1, <2>2, <3>1 DEF IInv, Tree, Held
  <2>4. ~ Has(stack', b)
    BY <1>2, <2>1, <2>2, <2>3 DEF Grows, OldGrow
  <2> QED BY <2>1, <2>2, <2>3, <2>4, AfterBlock
<1> QED BY <1>1, <1>2

\* The items of before hold the same items as before.
LEMMA HoldersAfter ==
  ASSUME IInv, next <= Len(document), Grows, NEW b \in Numbers
  PROVE  Holders(b) = { a \in 1 .. b - 1 : items'[a].last > items'[b].first }
<1> SUFFICES ASSUME NEW a \in 1 .. b - 1
             PROVE  items[a].last > items[b].first <=> items'[a].last > items'[b].first
  BY DEF Holders
<1>1. a \in Numbers
  BY AfterBlock DEF Numbers
<1>2. CASE Has(stack', a)
  <2>1. Has(stack, a)
    BY <1>1, <1>2 DEF Grows, OldGrow
  <2>2. items[b].last <= items[a].last
    BY <1>1, <2>1 DEF IInv, Tree, Reach
  <2> QED BY <1>1, <1>2, <2>2, AfterBlock
<1>3. CASE ~ Has(stack', a)
  BY <1>1, <1>3, AfterBlock
<1> QED BY <1>2, <1>3

LEMMA ParentsAfter ==
  ASSUME IInv, next <= Len(document), Grows
  PROVE  Parents'
<1> SUFFICES ASSUME NEW b \in Numbers'
             PROVE  LET H == { a \in 1 .. b - 1 : items'[a].last > items'[b].first }
                    IN  /\ items'[b].parent # 0 => items'[b].parent \in H
                        /\ \A a \in H : a <= items'[b].parent
  BY DEF Parents, Holders
<1>1. CASE b \in Numbers
  <2>1. /\ items[b].parent # 0 => items[b].parent \in Holders(b)
        /\ \A a \in Holders(b) : a <= items[b].parent
    BY <1>1 DEF IInv, Tree, Parents
  <2> QED BY <1>1, <2>1, HoldersAfter, AfterBlock
<1>2. CASE b \notin Numbers
  <2>1. b = Len(items) + 1 /\ 1 .. b - 1 = Numbers
    <3>1. b = Len(items) + 1
      BY <1>2 DEF Grows, NewFits
    <3> QED BY <3>1, AfterBlock DEF Numbers
  <2>2. ASSUME NEW a \in Numbers
        PROVE  items'[a].last > items'[b].first <=> Has(stack', a)
    BY <1>2, AfterBlock
  <2>3. /\ items'[b].parent # 0 => items'[b].parent \in Numbers /\ Has(stack', items'[b].parent)
        /\ \A a \in Numbers : Has(stack', a) => a <= items'[b].parent
    BY <1>2 DEF Grows, NewFits
  <2> QED BY <2>1, <2>2, <2>3
<1> QED BY <1>1, <1>2

(***************************************************************************)
(* The invariant.                                                          *)
(***************************************************************************)
LEMMA Invariance == Spec => []IInv
<1>1. Init => IInv
  <2> SUFFICES ASSUME Init PROVE IInv
    OBVIOUS
  <2>1. IsDocument(document)
    BY DocumentsAssumption DEF Init
  <2>2. TypeOK
    BY <2>1 DEF Init, TypeOK, IsDocument
  <2>3. Numbers = {} /\ Len(stack) = 0
    BY DEF Init, Numbers
  <2>4. Tree
    BY <2>3 DEF Tree, Increasing, Path, Ordered, Behind, Reach, Held, Parents
  <2> QED BY <2>2, <2>4 DEF IInv
<1>2. IInv /\ [Next]_vars => IInv'
  <2> SUFFICES ASSUME IInv, [Next]_vars PROVE IInv'
    OBVIOUS
  <2>1. ASSUME Grows, next <= Len(document), next' = next + 1, document' = document
        PROVE  IInv'
    <3>1. TypeOK'
      <4>1. next \in 1 .. Len(document) /\ Len(document) \in Nat /\ IsDocument(document)
        BY <2>1 DEF IInv, TypeOK, IsDocument
      <4>2. next' \in 1 .. Len(document') + 1 /\ IsDocument(document')
        BY <2>1, <4>1
      <4> QED BY <2>1, <4>2 DEF TypeOK, Grows, Numbers
    <3>2. Tree'
      BY <2>1, OrderedAfter, BehindAfter, ReachAfter, HeldAfter, ParentsAfter DEF Tree, Grows
    <3> QED BY <3>1, <3>2 DEF IInv
  <2>2. CASE Next
    <3>1. next <= Len(document) /\ next' = next + 1 /\ document' = document
      BY <2>2 DEF Next
    <3>2. CASE SkipEmpty
      <4>1. TypeOK'
        <5>1. next' \in 1 .. Len(document) + 1
          BY <3>1 DEF IInv, TypeOK, IsDocument
        <5> QED BY <3>1, <3>2, <5>1 DEF IInv, TypeOK, SkipEmpty
      <4>2. Behind'
        BY <3>1, <3>2 DEF IInv, Tree, TypeOK, Behind, SkipEmpty, Numbers
      <4>3. (Increasing /\ Path /\ Ordered /\ Reach /\ Held /\ Parents)'
        BY <3>2 DEF IInv, Tree, SkipEmpty, Increasing, Path, Ordered, Reach, Held, Parents,
                    Holders, Numbers
      <4> QED BY <4>1, <4>2, <4>3 DEF IInv, Tree
    <3>3. CASE AddItem
      BY <2>1, <3>1, <3>3, ItemGrows
    <3>4. CASE AddBody
      BY <2>1, <3>1, <3>4, BodyGrows
    <3> QED BY <2>2, <3>2, <3>3, <3>4 DEF Next
  <2>3. CASE UNCHANGED vars
    BY <2>3 DEF vars, IInv, TypeOK, Tree, Increasing, Path, Ordered, Behind, Reach, Held, Parents,
                Holders, Numbers
  <2> QED BY <2>2, <2>3
<1> QED BY <1>1, <1>2, PTL DEF Spec

(* Types: of the result, and of the stack, whose entries are items.        *)
THEOREM TypeCorrect == Spec => []TypeOK
BY Invariance, PTL DEF IInv

(* The ranges of list_item_ranges are a tree, and the parent it reports is *)
(* the innermost item around the child.                                    *)
THEOREM Nesting == Spec => []RangesNest
<1>1. IInv => RangesNest
  <2> SUFFICES ASSUME IInv, NEW b \in Numbers
               PROVE  /\ items[b].parent = Max(Holders(b) \cup {0})
                      /\ \A a \in Holders(b) : items[a].first < items[b].first /\ items[b].last <= items[a].last
    BY DEF RangesNest, Numbers
  <2>1. Len(items) \in Nat /\ items[b] \in Item
    BY ElementOfSeq DEF IInv, TypeOK, Numbers
  <2>2. \A a \in Holders(b) : a \in Numbers /\ a < b /\ items[a].last > items[b].first
    BY <2>1 DEF Holders, Numbers
  <2>3. items[b].parent = Max(Holders(b) \cup {0})
    <3> DEFINE S == Holders(b) \cup {0}
    <3>1. S \in SUBSET (0 .. Len(items)) /\ S # {}
      BY <2>1, <2>2 DEF Numbers
    <3>2. Max(S) \in S /\ \A x \in S : x <= Max(S)
      <4> HIDE DEF S
      <4> QED BY <2>1, <3>1, MaxIsGreatest
    <3>3. items[b].parent \in S /\ \A x \in S : x <= items[b].parent
      BY <2>1 DEF IInv, Tree, Parents, Item
    <3> HIDE DEF S
    <3>4. Max(S) <= items[b].parent /\ items[b].parent <= Max(S) /\ Max(S) \in Nat
      <4>1. S \in SUBSET Nat
        BY <3>1
      <4> QED BY <3>2, <3>3, <4>1
    <3>5. items[b].parent \in Nat
      BY <2>1 DEF Item
    <3> QED BY <3>4, <3>5 DEF S
  <2>4. \A a \in Holders(b) : items[a].first < items[b].first /\ items[b].last <= items[a].last
    BY <2>2 DEF IInv, Tree, Ordered, Held
  <2> QED BY <2>3, <2>4
<1> QED BY <1>1, Invariance, PTL

(***************************************************************************)
(* Siblings and envelopes: what the pass has seen of each item.            *)
(***************************************************************************)
\* The stack knows the content column of its items.
Contents ==
  \A k \in 1 .. Len(stack) : \A c \in ContentOf(stack[k].item) : c = stack[k].content

\* An open item reaches behind every block so far.
Covered == \A a \in Numbers : Has(stack, a) => \A n \in Passed : document[n].last <= items[a].last

\* The first block behind an item that is not open closed it.
Closed ==
  \A a \in Numbers :
    ~ Has(stack, a) =>
      \E m \in Passed :
        /\ document[m].first >= items[a].last /\ Closes(m, a)
        /\ \A n \in Passed : document[n].first >= items[a].last => m <= n

\* An item ends with a block.
Ends == \A a \in Numbers : \E n \in Passed : document[n].last = items[a].last

\* A body block is indented to the content of the innermost item around it.
BodiesFit ==
  \A n \in Passed :
    document[n].kind = "body" =>
      \A a \in Around(n) : (\A b \in Around(n) : b <= a) => \A c \in ContentOf(a) : document[n].indent >= c

Runs == Contents /\ Covered /\ Closed /\ Ends /\ BodiesFit /\ SiblingRuns

\* A step on a block that is not empty.
Takes ==
  /\ IInv /\ Runs /\ Grows
  /\ next <= Len(document) /\ block.kind # "empty"
  /\ next' = next + 1 /\ document' = document

LEMMA PassedAfter ==
  ASSUME Takes
  PROVE  /\ Passed' = Passed \cup {next}
         /\ next \in 1 .. Len(document) /\ Len(document) \in Nat
         /\ \A n \in Passed : /\ n \in 1 .. Len(document) /\ n < next
                              /\ document[n].first < document[n].last
                              /\ document[n].last <= block.first
                              /\ document[n].first \in Nat /\ document[n].last \in Nat
<1>1. next \in 1 .. Len(document) /\ Len(document) \in Nat /\ IsDocument(document)
  BY DEF Takes, IInv, TypeOK, IsDocument
<1>2. Passed' = Passed \cup {next}
  BY <1>1 DEF Takes, Passed, block
<1>3. ASSUME NEW n \in Passed
      PROVE  /\ n \in 1 .. Len(document) /\ n < next
             /\ document[n].first < document[n].last
             /\ document[n].last <= block.first
             /\ document[n].first \in Nat /\ document[n].last \in Nat
  <2>1. n \in 1 .. Len(document) /\ n < next
    BY <1>1, <1>3 DEF Passed
  <2>2. document[n] \in ListedBlock
    BY <1>1, <2>1, ElementOfSeq DEF IsDocument
  <2> QED BY <1>1, <2>1, <2>2 DEF IsDocument, block, ListedBlock
<1> QED BY <1>1, <1>2, <1>3

LEMMA ContentAfter ==
  ASSUME Takes, NEW a \in Numbers
  PROVE  ContentOf(a)' = ContentOf(a) /\ \A m : Closes(m, a)' <=> Closes(m, a)
<1>1. items'[a].first = items[a].first /\ items[a].first < block.first /\ items[a].first \in Nat
      /\ items'[a].indent = items[a].indent
  BY AfterBlock DEF Takes
<1>2. document[next].first # items[a].first
  BY <1>1 DEF block
<1>3. { m \in Passed : document[m].first = items[a].first }
        = { m \in Passed' : document'[m].first = items'[a].first }
  BY <1>1, <1>2, PassedAfter DEF Takes
<1>4. ContentOf(a)' = ContentOf(a)
  BY <1>3 DEF Takes, ContentOf
<1> QED BY <1>1, <1>4 DEF Takes, Closes

LEMMA CoveredAfter ==
  ASSUME Takes
  PROVE  Covered'
<1> SUFFICES ASSUME NEW a \in Numbers', Has(stack', a), NEW n \in Passed'
             PROVE  document[n].last <= items'[a].last
  BY DEF Takes, Covered
<1>1. items'[a].last = block.last /\ block.first < block.last /\ block.first \in Nat /\ block.last \in Nat
  BY AfterBlock DEF Takes
<1> QED BY <1>1, PassedAfter DEF block

LEMMA EndsAfter ==
  ASSUME Takes
  PROVE  Ends'
<1> SUFFICES ASSUME NEW a \in Numbers'
             PROVE  \E n \in Passed' : document[n].last = items'[a].last
  BY DEF Takes, Ends
<1>1. CASE items'[a].last = block.last
  BY <1>1, PassedAfter DEF block
<1>2. CASE items'[a].last # block.last
  <2>1. a \in Numbers /\ items'[a].last = items[a].last
    BY <1>2, AfterBlock DEF Takes
  <2> QED BY <2>1, PassedAfter DEF Takes, Runs, Ends
<1> QED BY <1>1, <1>2

\* The items a block closes, it closes for cause.
LEMMA ClosedAfter ==
  ASSUME Takes, \A a \in Numbers : Has(stack, a) /\ ~ Has(stack', a) => Closes(next, a)
  PROVE  Closed'
<1> SUFFICES ASSUME NEW a \in Numbers', ~ Has(stack', a)
             PROVE  \E m \in Passed' :
                      /\ document[m].first >= items'[a].last /\ Closes(m, a)'
                      /\ \A n \in Passed' : document[n].first >= items'[a].last => m <= n
  BY DEF Takes, Closed
<1>1. /\ a \in Numbers /\ items'[a].last = items[a].last
      /\ items[a].last <= block.first /\ items[a].last \in Nat
  BY AfterBlock DEF Takes
<1>2. CASE Has(stack, a)
  <2>1. PICK m : m = next /\ Closes(m, a)'
    BY <1>1, <1>2, ContentAfter
  <2>2. ASSUME NEW n \in Passed, document[n].first >= items[a].last
        PROVE  FALSE
    BY <1>1, <1>2, <2>2, PassedAfter DEF Takes, Runs, Covered
  <2>3. \A n \in Passed' : document[n].first >= items'[a].last => next <= n
    BY <1>1, <2>2, PassedAfter
  <2> QED BY <1>1, <2>1, <2>3, PassedAfter DEF block
<1>3. CASE ~ Has(stack, a)
  <2>1. PICK m \in Passed :
          /\ document[m].first >= items[a].last /\ Closes(m, a)
          /\ \A n \in Passed : document[n].first >= items[a].last => m <= n
    BY <1>1, <1>3 DEF Takes, Runs, Closed
  <2>2. m < next /\ m \in Passed' /\ m \in Nat
    BY <2>1, PassedAfter
  <2>3. \A n \in Passed' : document[n].first >= items'[a].last => m <= n
    BY <1>1, <2>1, <2>2, PassedAfter
  <2> QED BY <1>1, <2>1, <2>2, <2>3, ContentAfter
<1> QED BY <1>2, <1>3

LEMMA AroundAfter ==
  ASSUME Takes
  PROVE  /\ \A n \in Passed : Around(n)' = Around(n)
         /\ \A n : n = next => Around(n)' = { a \in Numbers : Has(stack', a) }
<1>1. Numbers = 1 .. Len(items) /\ Numbers' = 1 .. Len(items')
  BY DEF Numbers
<1>2. ASSUME NEW n \in Passed
      PROVE  { a \in Numbers' : items'[a].first < document[n].first /\ document[n].last <= items'[a].last }
               = { a \in Numbers : items[a].first < document[n].first /\ document[n].last <= items[a].last }
  <2>1. ASSUME NEW a \in Numbers', a \notin Numbers PROVE ~ (items'[a].first < document[n].first)
    BY <1>2, <2>1, AfterBlock, PassedAfter DEF Takes
  <2>2. ASSUME NEW a \in Numbers
        PROVE  document[n].last <= items'[a].last <=> document[n].last <= items[a].last
    <3>1. CASE Has(stack', a)
      <4>1. document[n].last <= items[a].last
        BY <1>2, <3>1 DEF Takes, Runs, Covered, Grows, OldGrow
      <4>2. items'[a].last = block.last /\ items[a].last <= block.first /\ block.first < block.last
            /\ items[a].last \in Nat /\ block.first \in Nat /\ block.last \in Nat
        BY <3>1, AfterBlock DEF Takes
      <4> QED BY <4>1, <4>2, PassedAfter
    <3>2. CASE ~ Has(stack', a)
      BY <3>2, AfterBlock DEF Takes
    <3> QED BY <3>1, <3>2
  <2> QED BY <2>1, <2>2, AfterBlock DEF Takes
<1>3. { a \in Numbers' : items'[a].first < block.first /\ block.last <= items'[a].last }
        = { a \in Numbers : Has(stack', a) }
  <2>1. ASSUME NEW a \in Numbers', a \notin Numbers PROVE ~ (items'[a].first < block.first)
    BY <2>1, AfterBlock DEF Takes
  <2>2. ASSUME NEW a \in Numbers
        PROVE  items'[a].first < block.first /\ (block.last <= items'[a].last <=> Has(stack', a))
    BY AfterBlock DEF Takes
  <2> QED BY <2>1, <2>2, AfterBlock DEF Takes
<1> QED BY <1>1, <1>2, <1>3 DEF Takes, Around, block

\* Contents of the items that stay, from those of before.
LEMMA KeptContents ==
  ASSUME Takes, NEW j \in 1 .. Len(stack)
  PROVE  /\ stack[j].item \in Numbers /\ stack[j].content \in Nat
         /\ \A a : a = stack[j].item => \A c \in ContentOf(a)' : c = stack[j].content
<1>1. stack[j] \in [item : Numbers, content : Nat]
  BY ElementOfSeq DEF Takes, IInv, TypeOK, Numbers
<1>2. \A c \in ContentOf(stack[j].item) : c = stack[j].content
  BY DEF Takes, Runs, Contents
<1> QED BY <1>1, <1>2, ContentAfter

LEMMA BodyRuns ==
  ASSUME Takes, AddBody
  PROVE  Contents' /\ BodiesFit' /\ \A a \in Numbers : Has(stack, a) /\ ~ Has(stack', a) => Closes(next, a)
<1>1. Len(stack) \in Nat /\ DOMAIN stack = 1 .. Len(stack) /\ TypeOK
  BY DEF Takes, IInv, TypeOK
<1>2. BodyKeeps \in SUBSET (1 .. Len(stack))
  BY <1>1 DEF BodyKeeps
<1>3. PICK k \in 0 .. Len(stack) :
        /\ stack' \in Seq([item : Numbers, content : Nat])
        /\ Len(stack') = k
        /\ \A j \in 1 .. k : stack'[j] = stack[j]
        /\ k # 0 => k \in BodyKeeps
        /\ \A j \in BodyKeeps : j <= k
  BY <1>1, <1>2, PopToPrefix DEF AddBody
<1>4. DOMAIN stack' = 1 .. k
  BY <1>3
<1>5. Contents'
  <2> SUFFICES ASSUME NEW j \in 1 .. k, NEW a, a = stack'[j].item
               PROVE  \A c \in ContentOf(a)' : c = stack'[j].content
    BY <1>3 DEF Contents
  <2>1. j \in 1 .. Len(stack)
    BY <1>1
  <2> QED BY <1>3, <2>1, KeptContents
<1>6. block.indent \in Nat /\ block.kind = "body"
  BY <1>1, BlockType DEF Takes, AddBody, ListedBlock
<1>7. BodiesFit'
  <2> SUFFICES ASSUME NEW n \in Passed', document[n].kind = "body",
                      NEW a \in Around(n)', \A b \in Around(n)' : b <= a,
                      NEW c \in ContentOf(a)'
               PROVE  document[n].indent >= c
    BY DEF Takes, BodiesFit
  <2>1. CASE n \in Passed
    <3>1. a \in Around(n) /\ \A b \in Around(n) : b <= a
      BY <2>1, AroundAfter
    <3>2. a \in Numbers
      BY <3>1 DEF Around, Numbers
    <3>3. c \in ContentOf(a)
      BY <3>2, ContentAfter
    <3> QED BY <2>1, <3>1, <3>3 DEF Takes, Runs, BodiesFit
  <2>2. CASE n = next
    <3>1. a \in Numbers /\ Has(stack', a) /\ \A b \in Numbers : Has(stack', b) => b <= a
      BY <2>2, AroundAfter
    <3>2. PICK j \in 1 .. k : stack'[j].item = a
      BY <1>4, <3>1 DEF Has
    <3>3. k \in 1 .. k /\ k \in 1 .. Len(stack)
      BY <1>1, <3>2
    <3>4. stack'[k].item \in Numbers /\ Has(stack', stack'[k].item)
      BY <1>3, <1>4, <3>3, KeptContents DEF Has
    <3>5. j = k
      <4>1. j < k => stack'[j].item < stack'[k].item
        BY <1>3, <3>2, <3>3 DEF Takes, Grows, Increasing
      <4>2. stack'[k].item <= a
        BY <3>1, <3>4
      <4>3. a \in Nat /\ stack'[k].item \in Nat
        BY <3>1, <3>4 DEF Numbers
      <4> QED BY <3>2, <4>1, <4>2, <4>3
    <3>6. c = stack[k].content
      BY <1>3, <3>2, <3>3, <3>5, KeptContents
    <3>7. stack[k].content <= block.indent
      BY <1>3, <3>3 DEF BodyKeeps
    <3> QED BY <1>6, <2>2, <3>3, <3>6, <3>7, KeptContents DEF block
  <2> QED BY <2>1, <2>2, PassedAfter
<1>8. ASSUME NEW a \in Numbers, Has(stack, a), ~ Has(stack', a)
      PROVE  Closes(next, a)
  <2>1. PICK j \in 1 .. Len(stack) : stack[j].item = a
    BY <1>1, <1>8 DEF Has
  <2>2. j \notin 1 .. k
    BY <1>3, <1>4, <1>8, <2>1 DEF Has
  <2>3. ~ (stack[j].content <= block.indent)
    BY <1>1, <1>3, <2>1, <2>2 DEF BodyKeeps
  <2>4. \A c \in ContentOf(a) : c = stack[j].content
    BY <2>1 DEF Takes, Runs, Contents
  <2>5. stack[j].content \in Nat
    BY KeptContents
  <2>6. \A c \in ContentOf(a) : block.indent < c
    BY <1>6, <2>3, <2>4, <2>5
  <2> QED BY <1>6, <2>6 DEF Closes, block
<1> QED BY <1>5, <1>7, <1>8

\* The last item that was popped is the only one a new item may continue.
Sibling(a, b) ==
  /\ Has(stack, a) /\ ~ Has(stack', a)
  /\ items[a].parent = items'[b].parent
  /\ items[a].indent = items'[b].indent
  /\ items[a].marker = items'[b].marker

LEMMA ItemRuns ==
  ASSUME Takes, AddItem
  PROVE  /\ Contents'
         /\ \A a \in Numbers : Has(stack, a) /\ ~ Has(stack', a) => Closes(next, a)
         /\ \A b \in Numbers' : b \notin Numbers =>
              \/ \E a \in Numbers : Sibling(a, b) /\ items'[b].group = items[a].group
              \/ items'[b].group = b /\ \A a \in Numbers : ~ Sibling(a, b)
<1> DEFINE kept == PopTo(ItemKeeps)
<1>1. /\ Len(stack) \in Nat /\ DOMAIN stack = 1 .. Len(stack) /\ TypeOK
      /\ items \in Seq(Item) /\ Len(items) \in Nat
  BY DEF Takes, IInv, TypeOK
<1>2. ItemKeeps \in SUBSET (1 .. Len(stack))
  BY <1>1 DEF ItemKeeps
<1>3. PICK k \in 0 .. Len(stack) :
        /\ kept \in Seq([item : Numbers, content : Nat])
        /\ Len(kept) = k
        /\ \A j \in 1 .. k : kept[j] = stack[j]
        /\ k # 0 => k \in ItemKeeps
        /\ \A j \in ItemKeeps : j <= k
  BY <1>1, <1>2, PopToPrefix
<1>4. PICK own \in Nat : own = Len(items) + 1
  BY <1>1
<1>5. /\ stack' = Append(kept, [item |-> own, content |-> block.content])
      /\ items' = Extend(Append(items, ItemAfter(kept)), stack', block.last)
  BY <1>4 DEF AddItem, Open
<1>6. block.indent \in Nat /\ block.kind = "item" /\ block \in ListedBlock /\ block.last \in Nat
  BY <1>1, BlockType DEF Takes, AddItem, ListedBlock
<1>7. Top(kept) = IF k = 0 THEN 0 ELSE stack[k].item
  <2> HIDE DEF kept
  <2> QED BY <1>3, PrefixStays DEF Takes, IInv, Tree
<1>8. items'[own].parent = Top(kept) /\ items'[own].indent = block.indent
      /\ items'[own].marker = block.marker /\ items'[own].group = Group(Previous(kept), own)
  <2>1. ItemAfter(kept) =
          [first |-> block.first, last |-> block.last, indent |-> block.indent, marker |-> block.marker,
           parent |-> Top(kept), group |-> Group(Previous(kept), own)]
    BY <1>4 DEF ItemAfter
  <2> HIDE DEF kept
  <2> DEFINE list == Append(items, ItemAfter(kept))
  <2>2. DOMAIN list = 1 .. own /\ list[own] = ItemAfter(kept)
    BY <1>1, <1>4
  <2>3. own \in DOMAIN list
    BY <1>4, <2>2
  <2>4. items' = Extend(list, stack', block.last)
    BY <1>5
  <2> HIDE DEF list
  <2>5. items'[own] = IF \E j \in DOMAIN stack' : stack'[j].item = own
                      THEN [list[own] EXCEPT !.last = block.last] ELSE list[own]
    BY <2>3, <2>4 DEF Extend
  <2> QED BY <2>1, <2>2, <2>5
<1> HIDE DEF kept
<1>9. /\ DOMAIN kept = 1 .. k /\ Len(stack') = k + 1 /\ DOMAIN stack' = 1 .. k + 1
      /\ \A j \in 1 .. k : stack'[j] = stack[j]
      /\ stack'[k + 1] = [item |-> own, content |-> block.content]
  BY <1>3, <1>5
<1>10. \A j \in 1 .. Len(stack) :
         /\ stack[j].item \in Numbers /\ stack[j].item # own
         /\ Has(stack', stack[j].item) <=> j \in 1 .. k
  <2> SUFFICES ASSUME NEW j \in 1 .. Len(stack)
               PROVE  /\ stack[j].item \in Numbers /\ stack[j].item # own
                      /\ Has(stack', stack[j].item) <=> j \in 1 .. k
    OBVIOUS
  <2>1. stack[j].item \in Numbers /\ stack[j].item # own
    BY <1>1, <1>4, KeptContents DEF Numbers
  <2>2. j \in 1 .. k => Has(stack', stack[j].item)
    BY <1>9 DEF Has
  <2>3. ASSUME Has(stack', stack[j].item) PROVE j \in 1 .. k
    <3>1. PICK i \in 1 .. k + 1 : stack'[i].item = stack[j].item
      BY <1>9, <2>3 DEF Has
    <3>2. i \in 1 .. k
      BY <1>9, <2>1, <3>1
    <3>3. i \in 1 .. Len(stack) /\ stack[i].item = stack[j].item
      BY <1>9, <3>1, <3>2
    <3>4. i = j
      <4>1. i < j => stack[i].item < stack[j].item
        BY <3>3 DEF Takes, IInv, Tree, Increasing
      <4>2. j < i => stack[j].item < stack[i].item
        BY <3>3 DEF Takes, IInv, Tree, Increasing
      <4> QED BY <2>1, <3>3, <4>1, <4>2 DEF Numbers
    <3> QED BY <3>2, <3>4
  <2> QED BY <2>1, <2>2, <2>3
<1>11. ASSUME NEW a \in Numbers, Has(stack, a), ~ Has(stack', a)
       PROVE  \E j \in k + 1 .. Len(stack) : stack[j].item = a
  <2>1. PICK j \in 1 .. Len(stack) : stack[j].item = a
    BY <1>1, <1>11 DEF Has
  <2>2. j \notin 1 .. k
    BY <1>10, <1>11, <2>1
  <2> QED BY <2>1, <2>2
<1>12. ASSUME NEW a \in Numbers, Has(stack, a), ~ Has(stack', a)
       PROVE  Closes(next, a)
  <2>1. PICK j \in k + 1 .. Len(stack) : stack[j].item = a
    BY <1>11, <1>12
  <2>2. j \in 1 .. Len(stack) /\ ~ (j <= k)
    BY <2>1
  <2>3. ~ (items[a].indent < block.indent)
    BY <1>1, <1>3, <2>1, <2>2 DEF ItemKeeps
  <2>4. items[a].indent \in Nat
    <3>1. items[a] \in Item
      BY <1>1, ElementOfSeq DEF Numbers
    <3> QED BY <3>1 DEF Item
  <2> QED BY <1>6, <2>3, <2>4 DEF Closes, block
<1>13. Contents'
  <2> SUFFICES ASSUME NEW j \in 1 .. k + 1, NEW a, a = stack'[j].item, NEW c \in ContentOf(a)'
               PROVE  c = stack'[j].content
    BY <1>9 DEF Contents
  <2>1. CASE j \in 1 .. k
    <3>1. j \in 1 .. Len(stack)
      BY <1>1, <2>1
    <3> QED BY <1>9, <2>1, <3>1, KeptContents
  <2>2. CASE j = k + 1
    <3>1. a = own /\ stack'[j].content = block.content
      BY <1>9, <2>2
    <3>2. a \in Numbers' /\ a \notin Numbers
      <4>1. stack'[j] \in [item : Numbers', content : Nat]
        <5>1. stack' \in Seq([item : Numbers', content : Nat]) /\ j \in 1 .. Len(stack')
          BY <1>9 DEF Takes, Grows
        <5> QED BY <5>1, ElementOfSeq
      <4>2. a \in Numbers'
        BY <4>1
      <4> QED BY <1>1, <1>4, <3>1, <4>2 DEF Numbers
    <3>3. items'[a].first = block.first
      BY <3>2, AfterBlock DEF Takes
    <3>4. PICK m \in Passed' : document[m].first = block.first /\ c = document[m].content
      BY <3>3 DEF Takes, ContentOf
    <3>5. m = next
      BY <3>4, PassedAfter, AfterBlock DEF Takes
    <3> QED BY <3>1, <3>4, <3>5 DEF block
  <2> QED BY <2>1, <2>2
<1>14. ASSUME NEW b \in Numbers', b \notin Numbers
       PROVE  \/ \E a \in Numbers : Sibling(a, b) /\ items'[b].group = items[a].group
              \/ items'[b].group = b /\ \A a \in Numbers : ~ Sibling(a, b)
  <2>1. b = own
    BY <1>4, <1>14 DEF Takes, Grows, NewFits
  <2>2. ASSUME NEW a \in Numbers, Sibling(a, b)
        PROVE  a \in Previous(kept)
    <3>1. PICK j \in k + 1 .. Len(stack) : stack[j].item = a
      BY <1>11, <2>2 DEF Sibling
    <3>2. j \in 1 .. Len(stack) /\ k < j
      BY <3>1
    <3>3. items[a].parent = IF j = 1 THEN 0 ELSE stack[j - 1].item
      BY <3>1, <3>2 DEF Takes, IInv, Tree, Path
    <3>4. items[a].parent = Top(kept)
      BY <1>8, <2>1, <2>2 DEF Sibling
    <3>5. j = k + 1
      <4>1. ASSUME k < j - 1 PROVE FALSE
        <5>1. j - 1 \in 1 .. Len(stack) /\ j # 1 /\ (k # 0 => k \in 1 .. Len(stack))
          BY <3>2, <4>1
        <5>2. stack[j - 1].item \in Numbers /\ Top(kept) = stack[j - 1].item
          BY <1>10, <3>3, <3>4, <5>1
        <5>3. k # 0
          BY <1>7, <5>2 DEF Numbers
        <5>4. stack[k].item < stack[j - 1].item
          BY <4>1, <5>1, <5>3 DEF Takes, IInv, Tree, Increasing
        <5>5. stack[k].item \in Numbers
          BY <1>10, <5>1, <5>3
        <5> QED BY <1>7, <5>2, <5>3, <5>4, <5>5 DEF Numbers
      <4> QED BY <3>2, <4>1
    <3>6. items[a].indent = block.indent /\ items[a].marker = block.marker
      BY <1>8, <2>1, <2>2 DEF Sibling
    <3>7. j \in (Len(kept) + 1 .. Len(kept) + 1) \cap DOMAIN stack
      BY <1>1, <1>3, <3>2, <3>5
    <3> QED BY <3>1, <3>4, <3>6, <3>7 DEF Previous
  <2>3. ASSUME NEW a \in Previous(kept)
        PROVE  a \in Numbers /\ Sibling(a, b)
    <3>1. PICK j \in (Len(kept) + 1 .. Len(kept) + 1) \cap DOMAIN stack : stack[j].item = a
      BY <2>3 DEF Previous
    <3>2. j \in 1 .. Len(stack) /\ j \notin 1 .. k
      BY <1>1, <1>3, <3>1
    <3>3. a \in Numbers /\ Has(stack, a) /\ ~ Has(stack', a)
      BY <1>1, <1>10, <3>1, <3>2 DEF Has
    <3> QED BY <1>8, <2>1, <2>3, <3>3 DEF Previous, Sibling
  <2>4. CASE Previous(kept) = {}
    BY <1>8, <2>1, <2>2, <2>4 DEF Group
  <2>5. CASE Previous(kept) # {}
    <3>1. PICK a \in Previous(kept) : a = CHOOSE n \in Previous(kept) : TRUE
      BY <2>5
    <3>2. items'[b].group = items[a].group
      BY <1>8, <2>1, <2>5, <3>1 DEF Group
    <3> QED BY <2>3, <3>1, <3>2
  <2> QED BY <2>4, <2>5
<1> QED BY <1>12, <1>13, <1>14

LEMMA AdjoiningAfter ==
  ASSUME Takes, NEW a \in Numbers, NEW b \in Numbers'
  PROVE  /\ b \in Numbers /\ a < b => (Adjoining(a, b)' <=> Adjoining(a, b))
         /\ b \notin Numbers => (Adjoining(a, b)' <=> Sibling(a, b))
<1>1. /\ items[a].first \in Nat /\ items[a].last \in Nat /\ items[a].last <= block.first
      /\ items'[a].parent = items[a].parent /\ items'[a].indent = items[a].indent
      /\ items'[a].marker = items[a].marker
      /\ items'[a].last = IF Has(stack', a) THEN block.last ELSE items[a].last
      /\ block.first \in Nat /\ block.last \in Nat /\ block.first < block.last
  BY AfterBlock DEF Takes
<1>2. Adjoining(a, b)' <=>
        /\ items'[a].parent = items'[b].parent
        /\ items'[a].indent = items'[b].indent
        /\ items'[a].marker = items'[b].marker
        /\ items'[a].last <= items'[b].first
        /\ \A n \in Passed' : document[n].last <= items'[a].last \/ document[n].first >= items'[b].first
  BY DEF Takes, Adjoining
<1>3. ASSUME b \in Numbers, a < b
      PROVE  Adjoining(a, b)' <=> Adjoining(a, b)
  <2>1. /\ items[b].first \in Nat /\ items[b].last \in Nat
        /\ items[b].first < items[b].last /\ items[b].last <= block.first
        /\ items'[b].parent = items[b].parent /\ items'[b].indent = items[b].indent
        /\ items'[b].marker = items[b].marker /\ items'[b].first = items[b].first
    BY <1>3, AfterBlock DEF Takes
  <2>2. CASE Has(stack', a)
    <3>1. items[b].last <= items[a].last
      BY <1>3, <2>2 DEF Takes, Grows, OldGrow, IInv, Tree, Reach
    <3> QED BY <1>1, <1>2, <2>1, <2>2, <3>1 DEF Adjoining
  <2>3. CASE ~ Has(stack', a)
    <3>1. document[next].first >= items[b].first
      BY <1>1, <2>1 DEF block
    <3>2. Passed' = Passed \cup {next}
      BY PassedAfter
    <3> QED BY <1>1, <1>2, <2>1, <2>3, <3>1, <3>2 DEF Adjoining
  <2> QED BY <2>2, <2>3
<1>4. ASSUME b \notin Numbers
      PROVE  Adjoining(a, b)' <=> Sibling(a, b)
  <2>1. items'[b].first = block.first
    BY <1>4, AfterBlock DEF Takes
  <2>2. CASE Has(stack', a)
    BY <1>1, <1>2, <2>1, <2>2 DEF Sibling
  <2>3. CASE ~ Has(stack', a) /\ Has(stack, a)
    <3>1. \A n \in Passed' : document[n].last <= items[a].last \/ document[n].first >= block.first
      <4>1. \A n \in Passed : document[n].last <= items[a].last
        BY <2>3 DEF Takes, Runs, Covered
      <4> QED BY <1>1, <4>1, PassedAfter DEF block
    <3> QED BY <1>1, <1>2, <2>1, <2>3, <3>1 DEF Sibling
  <2>4. CASE ~ Has(stack, a)
    <3>1. PICK m \in Passed : document[m].first >= items[a].last
      BY <2>4 DEF Takes, Runs, Closed
    <3>2. ~ Has(stack', a)
      BY <2>4 DEF Takes, Grows, OldGrow
    <3>3. m \in Passed' /\ ~ (document[m].last <= items'[a].last) /\ ~ (document[m].first >= block.first)
      BY <1>1, <3>1, <3>2, PassedAfter
    <3> QED BY <1>2, <2>1, <2>4, <3>3 DEF Sibling
  <2> QED BY <2>2, <2>3, <2>4
<1> QED BY <1>3, <1>4

LEMMA SiblingsAfter ==
  ASSUME Takes,
         \A b \in Numbers' : b \notin Numbers =>
           \/ \E a \in Numbers : Sibling(a, b) /\ items'[b].group = items[a].group
           \/ items'[b].group = b /\ \A a \in Numbers : ~ Sibling(a, b)
  PROVE  SiblingRuns'
<1> SUFFICES ASSUME NEW b \in Numbers'
             PROVE  \/ \E a \in 1 .. b - 1 : Adjoining(a, b)' /\ items'[b].group = items'[a].group
                    \/ items'[b].group = b /\ \A a \in 1 .. b - 1 : ~ Adjoining(a, b)'
  BY DEF SiblingRuns, Numbers
<1>1. Len(items) \in Nat /\ \A n \in Numbers : items'[n].group = items[n].group
  BY AfterBlock DEF Takes
<1>2. CASE b \in Numbers
  <2>1. \A a \in 1 .. b - 1 : a \in Numbers /\ a < b
    BY <1>1, <1>2 DEF Numbers
  <2>2. \/ \E a \in 1 .. b - 1 : Adjoining(a, b) /\ items[b].group = items[a].group
        \/ items[b].group = b /\ \A a \in 1 .. b - 1 : ~ Adjoining(a, b)
    BY <1>2 DEF Takes, Runs, SiblingRuns, Numbers
  <2>3. \A a \in 1 .. b - 1 : Adjoining(a, b)' <=> Adjoining(a, b)
    BY <1>2, <2>1, AdjoiningAfter
  <2> QED BY <1>1, <1>2, <2>1, <2>2, <2>3
<1>3. CASE b \notin Numbers
  <2>1. 1 .. b - 1 = Numbers
    <3>1. b = Len(items) + 1
      BY <1>3 DEF Takes, Grows, NewFits
    <3> QED BY <1>1, <3>1 DEF Numbers
  <2>2. \A a \in Numbers : Adjoining(a, b)' <=> Sibling(a, b)
    BY <1>3, AdjoiningAfter
  <2> QED BY <1>1, <1>3, <2>1, <2>2
<1> QED BY <1>2, <1>3

LEMMA RunsInvariance == Spec => []Runs
<1>1. Init => Runs
  <2> SUFFICES ASSUME Init PROVE Runs
    OBVIOUS
  <2>1. Numbers = {} /\ 1 .. Len(items) = {} /\ 1 .. Len(stack) = {} /\ Passed = {}
    BY DEF Init, Numbers, Passed
  <2> QED BY <2>1 DEF Runs, Contents, Covered, Closed, Ends, BodiesFit, SiblingRuns
<1>2. IInv /\ Runs /\ IInv' /\ [Next]_vars => Runs'
  <2> SUFFICES ASSUME IInv, Runs, [Next]_vars PROVE Runs'
    OBVIOUS
  <2>1. CASE UNCHANGED vars
    BY <2>1 DEF vars, Runs, Contents, Covered, Closed, Ends, BodiesFit, SiblingRuns, Numbers, Passed,
                Adjoining, Closes, ContentOf, Around
  <2>2. CASE Next
    <3>1. next <= Len(document) /\ next' = next + 1 /\ document' = document
      BY <2>2 DEF Next
    <3>2. CASE SkipEmpty
      <4>1. items' = items /\ stack' = stack
        BY <3>2 DEF SkipEmpty
      <4>2. Passed' = Passed
        BY <3>1, <3>2 DEF SkipEmpty, Passed, block, IInv, TypeOK, IsDocument
      <4> QED BY <3>1, <4>1, <4>2 DEF Runs, Contents, Covered, Closed, Ends, BodiesFit, SiblingRuns,
                  Numbers, Adjoining, Closes, ContentOf, Around
    <3>3. CASE AddItem
      <4>1. Takes
        BY <3>1, <3>3, ItemGrows DEF Takes, AddItem
      <4>2. document[next].kind # "body"
        BY <3>3 DEF AddItem, block
      <4>3. BodiesFit'
        <5> SUFFICES ASSUME NEW n \in Passed', document[n].kind = "body",
                            NEW a \in Around(n)', \A b \in Around(n)' : b <= a,
                            NEW c \in ContentOf(a)'
                     PROVE  document[n].indent >= c
          BY <3>1 DEF BodiesFit
        <5>1. n \in Passed
          BY <4>1, <4>2, PassedAfter
        <5>2. a \in Around(n) /\ \A b \in Around(n) : b <= a
          BY <4>1, <5>1, AroundAfter
        <5>3. a \in Numbers
          BY <5>2 DEF Around, Numbers
        <5>4. c \in ContentOf(a)
          BY <4>1, <5>3, ContentAfter
        <5> QED BY <5>1, <5>2, <5>4 DEF Runs, BodiesFit
      <4> QED BY <3>3, <4>1, <4>3, ItemRuns, CoveredAfter, EndsAfter, ClosedAfter, SiblingsAfter DEF Runs
    <3>4. CASE AddBody
      <4>1. Takes
        BY <3>1, <3>4, BodyGrows DEF Takes, AddBody
      <4>2. Numbers' = Numbers
        BY <4>1, <3>4, ExtendProperties, BlockType DEF Takes, IInv, TypeOK, AddBody, Numbers, ListedBlock
      <4> QED BY <3>4, <4>1, <4>2, BodyRuns, CoveredAfter, EndsAfter, ClosedAfter, SiblingsAfter DEF Runs
    <3> QED BY <2>2, <3>2, <3>3, <3>4 DEF Next
  <2> QED BY <2>1, <2>2
<1> QED BY <1>1, <1>2, Invariance, PTL DEF Spec

(* Groups are runs of siblings (sibling_group of list_item_ranges): an     *)
(* item shares the group of the item it adjoins, and of no other.          *)
THEOREM Siblings == Spec => []SiblingRuns
BY RunsInvariance, PTL DEF Runs

(* A range ends where the text indented under its item does.               *)
THEOREM Envelopes == Spec => []EnvelopesFit
<1>1. IInv /\ Runs => EnvelopesFit
  <2> SUFFICES ASSUME IInv, Runs PROVE EnvelopesFit
    OBVIOUS
  <2>1. Len(items) \in Nat
    BY DEF IInv, TypeOK
  <2>2. ASSUME NEW a \in Numbers, NEW n \in Passed, document[n].first >= items[a].last
        PROVE  \E m \in Passed : m <= n /\ document[m].first >= items[a].last /\ Closes(m, a)
    <3>1. ~ Has(stack, a)
      <4>1. n \in 1 .. Len(document)
        BY DEF Passed, IInv, TypeOK, IsDocument
      <4>2. document[n] \in ListedBlock /\ document[n].first < document[n].last
        BY <4>1, ElementOfSeq DEF IInv, TypeOK, IsDocument
      <4>3. items[a] \in Item
        BY ElementOfSeq DEF IInv, TypeOK, Numbers
      <4> QED BY <2>2, <4>2, <4>3 DEF Runs, Covered, ListedBlock, Item
    <3> QED BY <2>2, <3>1 DEF Runs, Closed
  <2>3. ASSUME NEW n \in Passed, document[n].kind = "body", Around(n) # {}, NEW c \in ContentOf(Max(Around(n)))
        PROVE  document[n].indent >= c
    <3>1. Around(n) \in SUBSET (0 .. Len(items))
      BY <2>1 DEF Around
    <3>2. Max(Around(n)) \in Around(n) /\ \A b \in Around(n) : b <= Max(Around(n))
      BY <2>1, <2>3, <3>1, MaxIsGreatest
    <3> QED BY <2>3, <3>2 DEF Runs, BodiesFit
  <2> QED BY <2>2, <2>3 DEF EnvelopesFit, Runs, Ends, Numbers
<1> QED BY <1>1, Invariance, RunsInvariance, PTL
=============================================================================
