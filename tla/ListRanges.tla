----------------------------- MODULE ListRanges -----------------------------
(***************************************************************************)
(* list_item_ranges of src/parser.rs: one pass over the blocks of a        *)
(* document that gives each list item its range, its parent and its group  *)
(* of siblings.  An item stays open, on a stack, for as long as blocks     *)
(* follow that are indented under it.                                      *)
(*                                                                         *)
(* Ranges are in lines; items are numbered from 1, and parent 0 is None.   *)
(***************************************************************************)
EXTENDS Integers, Sequences, FiniteSetsExt

CONSTANT Documents  \* the documents a host may ask about, as their blocks

Markers == {"-", "*", ".", ")"}

\* A block as the pass sees it: an item, with the column of its marker and
\* of its content; another block, with the column of its first line; Empty.
ListedBlock ==
  [kind : {"item", "body", "empty"}, first : Nat, last : Nat,
   indent : Nat, content : Nat, marker : Markers]

IsDocument(d) ==
  /\ d \in Seq(ListedBlock)
  /\ \A n \in 1 .. Len(d) :
       /\ d[n].first < d[n].last
       /\ d[n].kind = "item" => d[n].indent < d[n].content
  /\ \A m, n \in 1 .. Len(d) : m < n => d[m].last <= d[n].first

ASSUME DocumentsAssumption == \A d \in Documents : IsDocument(d)

VARIABLES
  document,  \* document.blocks
  next,      \* the block the pass looks at
  items,     \* the result
  stack      \* the items that are open, with the column of their content

vars == <<document, next, items, stack>>

-----------------------------------------------------------------------------
block == document[next]

\* Those of the stack's items that the block does not close.
ItemKeeps == { k \in DOMAIN stack : items[stack[k].item].indent < block.indent }

\* Fault: a block right at the content's column leaves the item.
BodyKeepsRight == { k \in DOMAIN stack : stack[k].content < block.indent }

BodyKeeps == { k \in DOMAIN stack : stack[k].content <= block.indent }

\* while stack.last() is to be closed { stack.pop() }
PopTo(keeps) == SubSeq(stack, 1, Max(keeps \cup {0}))

\* Fault: only the innermost item grows.
ExtendTop(list, open, last) ==
  [n \in DOMAIN list |->
     IF open # <<>> /\ open[Len(open)].item = n THEN [list[n] EXCEPT !.last = last] ELSE list[n]]

\* Items that are open reach to the end of the block.
Extend(list, open, last) ==
  [n \in DOMAIN list |->
     IF \E k \in DOMAIN open : open[k].item = n THEN [list[n] EXCEPT !.last = last] ELSE list[n]]

Top(open) == IF open = <<>> THEN 0 ELSE open[Len(open)].item

\* Fault: the kind of marker is not compared.
PreviousAnyMarker(kept) ==
  { n \in { stack[k].item : k \in (Len(kept) + 1 .. Len(kept) + 1) \cap DOMAIN stack } :
      items[n].indent = block.indent /\ items[n].parent = Top(kept) }

\* Number of the item popped last, if it is a sibling.
Previous(kept) ==
  { n \in { stack[k].item : k \in (Len(kept) + 1 .. Len(kept) + 1) \cap DOMAIN stack } :
      /\ items[n].indent = block.indent
      /\ items[n].parent = Top(kept)
      /\ items[n].marker = block.marker }

Group(previous, own) ==
  IF previous = {} THEN own ELSE items[CHOOSE n \in previous : TRUE].group

ItemAfter(kept) ==
  [first |-> block.first, last |-> block.last, indent |-> block.indent, marker |-> block.marker,
   parent |-> Top(kept), group |-> Group(Previous(kept), Len(items) + 1)]

Open(kept) ==
  /\ stack' = Append(kept, [item |-> Len(items) + 1, content |-> block.content])
  /\ items' = Extend(Append(items, ItemAfter(kept)), stack', block.last)

-----------------------------------------------------------------------------
SkipEmpty ==
  /\ block.kind = "empty"
  /\ UNCHANGED <<items, stack>>

AddItem ==
  /\ block.kind = "item"
  /\ Open(PopTo(ItemKeeps))

AddBody ==
  /\ block.kind = "body"
  /\ stack' = PopTo(BodyKeeps)
  /\ items' = Extend(items, stack', block.last)

Init == document \in Documents /\ next = 1 /\ items = <<>> /\ stack = <<>>

Next ==
  /\ next <= Len(document)
  /\ SkipEmpty \/ AddItem \/ AddBody
  /\ next' = next + 1
  /\ UNCHANGED document

Spec == Init /\ [][Next]_vars

-----------------------------------------------------------------------------
Item ==
  [first : Nat, last : Nat, indent : Nat, marker : Markers, parent : Nat, group : Nat]

TypeOK ==
  /\ IsDocument(document)
  /\ next \in 1 .. Len(document) + 1
  /\ items \in Seq(Item)
  /\ stack \in Seq([item : 1 .. Len(items), content : Nat])

(* The ranges are a tree: two items share lines only if one of them holds  *)
(* the other whole, and the parent the query reports is the innermost item *)
(* that holds the child (the stack in list_item_ranges).                   *)
Holders(b) == { a \in 1 .. b - 1 : items[a].last > items[b].first }

RangesNest ==
  \A b \in 1 .. Len(items) :
    /\ items[b].parent = Max(Holders(b) \cup {0})
    /\ \A a \in Holders(b) : items[a].first < items[b].first /\ items[b].last <= items[a].last

(* Siblings are a run: an item is in the group of the item before it if    *)
(* they have the parent, the column and the kind of marker in common and   *)
(* nothing but blank lines stands between, and starts a group otherwise    *)
(* (sibling_group).                                                        *)
Passed == { n \in 1 .. next - 1 : document[n].kind # "empty" }

Adjoining(a, b) ==
  /\ items[a].parent = items[b].parent
  /\ items[a].indent = items[b].indent
  /\ items[a].marker = items[b].marker
  /\ items[a].last <= items[b].first
  /\ \A n \in Passed : document[n].last <= items[a].last \/ document[n].first >= items[b].first

SiblingRuns ==
  \A b \in 1 .. Len(items) :
    \/ \E a \in 1 .. b - 1 : Adjoining(a, b) /\ items[b].group = items[a].group
    \/ items[b].group = b /\ \A a \in 1 .. b - 1 : ~ Adjoining(a, b)

(* A range ends with what is indented under its item, no sooner and no     *)
(* later: with a block, never a blank line, and before the first block     *)
(* that leaves the item; a body block inside is indented to the content of *)
(* the innermost item around it.                                           *)
ContentOf(a) == { document[n].content : n \in { m \in Passed : document[m].first = items[a].first } }

Closes(n, a) ==
  IF document[n].kind = "item" THEN document[n].indent <= items[a].indent
  ELSE \A c \in ContentOf(a) : document[n].indent < c

Around(n) == { a \in 1 .. Len(items) : items[a].first < document[n].first /\ document[n].last <= items[a].last }

EnvelopesFit ==
  /\ \A a \in 1 .. Len(items) :
       /\ \E n \in Passed : document[n].last = items[a].last
       /\ \A n \in Passed :
            document[n].first >= items[a].last =>
              \E m \in Passed : m <= n /\ document[m].first >= items[a].last /\ Closes(m, a)
  /\ \A n \in Passed : document[n].kind = "body" /\ Around(n) # {} =>
       \A c \in ContentOf(Max(Around(n))) : document[n].indent >= c
=============================================================================
