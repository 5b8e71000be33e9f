--------------------------- MODULE StateTreeProofs ---------------------------
(***************************************************************************)
(* The walk over a state, for trees of any shape, strings of any length    *)
(* and any number of refused, failed and repeated saves.                   *)
(***************************************************************************)
EXTENDS StateTree, TLAPS

Walking ==
  [tree : {Normal(doc)}, out : [Places -> Seq(Part)], before : SUBSET Contents, on : {TRUE}]

TypeOK ==
  /\ IsTree(doc)
  /\ saved = None \/ IsTree(saved)
  /\ stored \in Seq(Media)
  /\ walk = Off \/ (walk \in Walking /\ Readable(doc) /\ answer = "none")

(* What the walk puts out for a part of the decoded state.                  *)
IsReplaced(new, part, media) ==
  IF part.form = "inline"
  THEN new.form = "url" /\ new.id \in DOMAIN media /\ media[new.id] = Row(part.content, TRUE)
  ELSE new = part

OutIsReplaced ==
  \A p \in Places :
    /\ Len(walk.out[p]) <= Len(Leaf(p))
    /\ \A k \in 1..Len(walk.out[p]) :
         /\ Leaf(p)[k].form # "broken"
         /\ IsReplaced(walk.out[p][k], Leaf(p)[k], stored)

(* It has stored the images it has read, and no other.                      *)
StoredIsRead ==
  /\ walk.before \subseteq Images
  /\ \A c \in Images \ walk.before :
       \E p \in Places : \E k \in 1..Len(walk.out[p]) : Leaf(p)[k] = Inline(c)

(* It has entered a leaf only when the ones before it were done.            *)
InOrder == \A p, q \in Places : Precedes(p, q) /\ walk.out[q] # <<>> => Done(p)

IInv ==
  /\ TypeOK
  /\ URLsServed
  /\ walk.on => OutIsReplaced /\ StoredIsRead /\ InOrder

(***************************************************************************)
(* Parts, trees and rows.                                                  *)
(***************************************************************************)
LEMMA PartKinds ==
  /\ Plain(Blank) \in Part
  /\ \A n \in Nat : URL(n) \in Part
  /\ \A part \in Part : part.form = "inline" =>
       part.content \in Contents /\ part = Inline(part.content)
  /\ \A part \in Part : part.form = "broken" => part = Broken
BY StateTreeAssumption DEF Part, Plain, URL, Inline, Broken

LEMMA TreeParts ==
  ASSUME NEW t, IsTree(t)
  PROVE  /\ DOMAIN t.leaves \subseteq Seq(Nat)
         /\ \A p \in DOMAIN t.leaves :
              /\ t.leaves[p] \in Seq(Part)
              /\ \A k \in DOMAIN t.leaves[p] :
                   t.leaves[p][k] \in Part /\ t.leaves[p][k] \in PartsOf(t)
BY DEF IsTree, PartsOf, ToSet

LEMMA PartsAreParts ==
  ASSUME NEW t, IsTree(t), NEW part \in PartsOf(t)
  PROVE  /\ part \in Part
         /\ \E p \in DOMAIN t.leaves : \E k \in DOMAIN t.leaves[p] : part = t.leaves[p][k]
BY TreeParts DEF PartsOf, ToSet

LEMMA EmptyTree == IsTree(Empty) /\ PartsOf(Empty) = {} /\ DOMAIN Empty.leaves = {}
BY DEF IsTree, Empty, Tree, PartsOf

(* Decoding changes values only.                                            *)
LEMMA DecodedPart ==
  ASSUME NEW part \in Part, ~TooLarge(part)
  PROVE  /\ Decode(part) \in Part /\ Decode(part).form = part.form
         /\ part.form # "plain" => Decode(part) = part
<1>1. CASE part.form = "plain"
  <2>1. part.value \in Values /\ Decoded[part.value] # OutOfRange
    BY <1>1 DEF Part, TooLarge
  <2>2. Decoded[part.value] \in Values
    BY <2>1, StateTreeAssumption
  <2>3. QED
    BY <1>1, <2>2 DEF Decode, Plain, Part
<1>2. CASE part.form # "plain"
  BY <1>2 DEF Decode
<1>3. QED
  BY <1>1, <1>2

LEMMA NormalTree ==
  ASSUME NEW t, IsTree(t), Readable(t), t # NullState
  PROVE  /\ IsTree(Normal(t)) /\ Normal(t).arrays = t.arrays
         /\ DOMAIN Normal(t).leaves = DOMAIN t.leaves
         /\ \A p \in DOMAIN t.leaves :
              /\ Len(Normal(t).leaves[p]) = Len(t.leaves[p])
              /\ \A k \in DOMAIN t.leaves[p] :
                   /\ ~TooLarge(t.leaves[p][k])
                   /\ Normal(t).leaves[p][k] = Decode(t.leaves[p][k])
<1>1. /\ Normal(t).arrays = t.arrays /\ DOMAIN Normal(t).leaves = DOMAIN t.leaves
      /\ \A p \in DOMAIN t.leaves :
           Normal(t).leaves[p] = [k \in DOMAIN t.leaves[p] |-> Decode(t.leaves[p][k])]
  BY DEF Normal, Tree
<1>2. ASSUME NEW p \in DOMAIN t.leaves
      PROVE  /\ Normal(t).leaves[p] \in Seq(Part)
             /\ Len(Normal(t).leaves[p]) = Len(t.leaves[p])
             /\ \A k \in DOMAIN t.leaves[p] :
                  /\ ~TooLarge(t.leaves[p][k])
                  /\ Normal(t).leaves[p][k] = Decode(t.leaves[p][k])
  <2>1. /\ t.leaves[p] \in Seq(Part)
        /\ \A k \in DOMAIN t.leaves[p] :
             t.leaves[p][k] \in Part /\ ~TooLarge(t.leaves[p][k])
    BY TreeParts DEF Readable
  <2>2. \A k \in DOMAIN t.leaves[p] : Decode(t.leaves[p][k]) \in Part
    BY <2>1, DecodedPart
  <2> DEFINE new == [k \in DOMAIN t.leaves[p] |-> Decode(t.leaves[p][k])]
  <2>3. new \in [1..Len(t.leaves[p]) -> Part] /\ Normal(t).leaves[p] = new
    <3>1. DOMAIN t.leaves[p] = 1..Len(t.leaves[p])
      BY <2>1
    <3>2. new \in [DOMAIN t.leaves[p] -> Part]
      BY <2>2
    <3>3. Normal(t).leaves[p] = new
      BY <1>1
    <3>4. QED
      BY <3>1, <3>2, <3>3
  <2>4. Normal(t).leaves[p] \in Seq(Part) /\ Len(Normal(t).leaves[p]) = Len(t.leaves[p])
    BY <2>1, <2>3
  <2>5. QED
    BY <1>1, <2>1, <2>4
<1>3. IsTree(Normal(t))
  BY <1>1, <1>2 DEF IsTree
<1>4. QED
  BY <1>1, <1>2, <1>3

LEMMA NormalIsTree ==
  ASSUME NEW t, IsTree(t), Readable(t)
  PROVE  IsTree(Normal(t))
BY NormalTree, EmptyTree DEF Normal

(* A URL in the decoded state is one the client sent.                       *)
LEMMA NormalURLs ==
  ASSUME NEW t, IsTree(t), Readable(t), NEW part \in PartsOf(Normal(t)), part.form = "url"
  PROVE  part \in PartsOf(t)
<1>1. t # NullState
  BY EmptyTree DEF Normal
<1>2. IsTree(Normal(t))
  BY NormalIsTree
<1>3. PICK p \in DOMAIN Normal(t).leaves :
        \E k \in DOMAIN Normal(t).leaves[p] : part = Normal(t).leaves[p][k]
  BY <1>2, PartsAreParts
<1>4. PICK k \in DOMAIN Normal(t).leaves[p] : part = Normal(t).leaves[p][k]
  BY <1>3
<1>5. p \in DOMAIN t.leaves /\ Normal(t).leaves[p] \in Seq(Part) /\ t.leaves[p] \in Seq(Part)
  BY <1>1, <1>2, <1>3, NormalTree, TreeParts
<1>6. k \in DOMAIN t.leaves[p]
  BY <1>1, <1>4, <1>5, NormalTree
<1>7. PICK sent : sent = t.leaves[p][k]
  OBVIOUS
<1>8. sent \in Part /\ sent \in PartsOf(t) /\ ~TooLarge(sent) /\ part = Decode(sent)
  BY <1>1, <1>4, <1>5, <1>6, <1>7, NormalTree, TreeParts
<1>9. QED
  BY <1>8, DecodedPart

LEMMA OldestFound ==
  ASSUME NEW media \in Seq(Media), NEW c, IsStored(c, media)
  PROVE  Oldest(c, media) \in DOMAIN media /\ media[Oldest(c, media)] = Row(c, TRUE)
<1>1. PICK n \in DOMAIN media : /\ media[n].content = c /\ media[n].file
                                /\ \A m \in 1..(n - 1) : media[m].content # c
  BY DEF IsStored
<1>2. /\ Oldest(c, media) \in DOMAIN media /\ media[Oldest(c, media)].content = c
      /\ \A m \in 1..(Oldest(c, media) - 1) : media[m].content # c
  BY <1>1 DEF Oldest
<1>3. Oldest(c, media) = n
  BY <1>1, <1>2
<1>4. media[n] \in Media
  BY <1>1
<1>5. QED
  BY <1>1, <1>3, <1>4 DEF Media, Row

LEMMA RowAppended ==
  ASSUME NEW media \in Seq(Media), NEW row \in Media, NEW new, new = Append(media, row)
  PROVE  /\ new \in Seq(Media) /\ Len(new) \in DOMAIN new
         /\ \A n \in DOMAIN media : n \in DOMAIN new /\ new[n] = media[n]
         /\ new[Len(new)] = row
         /\ \A n \in DOMAIN new : n \in DOMAIN media \/ n = Len(new)
OBVIOUS

(* The rows keep their positions, and the image has a row with its file.    *)
LEMMA MediaForStores ==
  ASSUME NEW media \in Seq(Media), NEW c \in Contents
  PROVE  LET new == MediaFor(c, media)
         IN  /\ new \in Seq(Media)
             /\ \A n \in DOMAIN media : n \in DOMAIN new /\ new[n] = media[n]
             /\ \A n \in DOMAIN new : n \in DOMAIN media \/ new[n] = Row(c, TRUE)
             /\ Position(c, new) \in DOMAIN new /\ new[Position(c, new)] = Row(c, TRUE)
<1> DEFINE new == MediaFor(c, media)
<1>1. CASE IsStored(c, media)
  <2>1. new = media
    BY <1>1 DEF MediaFor
  <2>2. QED
    BY <1>1, <2>1, OldestFound DEF Position
<1>2. CASE ~IsStored(c, media)
  <2>1. new = Append(media, Row(c, TRUE)) /\ Row(c, TRUE) \in Media
    BY <1>2 DEF MediaFor, Media, Row
  <2>2. /\ new \in Seq(Media) /\ Len(new) \in DOMAIN new
        /\ \A n \in DOMAIN media : n \in DOMAIN new /\ new[n] = media[n]
        /\ new[Len(new)] = Row(c, TRUE)
        /\ \A n \in DOMAIN new : n \in DOMAIN media \/ n = Len(new)
    <3> HIDE DEF new
    <3>1. PICK row : row = Row(c, TRUE)
      OBVIOUS
    <3>2. row \in Media /\ new = Append(media, row)
      BY <2>1, <3>1
    <3>3. /\ new \in Seq(Media) /\ Len(new) \in DOMAIN new
          /\ \A n \in DOMAIN media : n \in DOMAIN new /\ new[n] = media[n]
          /\ new[Len(new)] = row
          /\ \A n \in DOMAIN new : n \in DOMAIN media \/ n = Len(new)
      BY <3>2, RowAppended
    <3>4. QED
      BY <3>1, <3>3
  <2> HIDE DEF new
  <2>3. Position(c, new) \in DOMAIN new /\ new[Position(c, new)] = Row(c, TRUE)
    BY <2>2, OldestFound DEF Position
  <2>4. QED
    BY <2>2, <2>3 DEF new
<1>3. QED
  BY <1>1, <1>2

(***************************************************************************)
(* The walk.                                                               *)
(***************************************************************************)
LEMMA WalkOn ==
  ASSUME IInv, walk.on
  PROVE  /\ IsTree(doc) /\ stored \in Seq(Media) /\ answer = "none" /\ Readable(doc)
         /\ walk \in Walking /\ walk.tree = Normal(doc) /\ IsTree(walk.tree)
         /\ walk.out \in [Places -> Seq(Part)]
         /\ OutIsReplaced /\ StoredIsRead /\ InOrder
<1>1. walk # Off
  BY DEF Off
<1>2. TypeOK /\ OutIsReplaced /\ StoredIsRead /\ InOrder
  BY DEF IInv
<1>3. walk \in Walking /\ IsTree(doc) /\ Readable(doc) /\ stored \in Seq(Media) /\ answer = "none"
  BY <1>1, <1>2 DEF TypeOK
<1>4. walk.tree = Normal(doc) /\ walk.out \in [Places -> Seq(Part)]
  BY <1>3 DEF Walking
<1>5. QED
  BY <1>2, <1>3, <1>4, NormalIsTree

LEMMA LeafParts ==
  ASSUME IInv, walk.on, NEW p \in Places
  PROVE  /\ Leaf(p) \in Seq(Part) /\ walk.out[p] \in Seq(Part)
         /\ \A k \in DOMAIN Leaf(p) : Leaf(p)[k] \in Part /\ Leaf(p)[k] \in PartsOf(walk.tree)
BY WalkOn, TreeParts DEF Places, Leaf

(* A leaf whose turn it is has a next part.                                 *)
LEMMA NextPartIsThere ==
  ASSUME IInv, walk.on, NEW q \in Places, Turn(q)
  PROVE  /\ Len(walk.out[q]) + 1 \in DOMAIN Leaf(q)
         /\ NextPart(q) = Leaf(q)[Len(walk.out[q]) + 1]
         /\ NextPart(q) \in Part
<1>1. Leaf(q) \in Seq(Part) /\ walk.out[q] \in Seq(Part) /\ OutIsReplaced
  BY WalkOn, LeafParts
<1>2. Len(walk.out[q]) # Len(Leaf(q)) /\ Len(walk.out[q]) <= Len(Leaf(q))
  BY <1>1 DEF Turn, Done, OutIsReplaced
<1>3. Len(walk.out[q]) + 1 \in DOMAIN Leaf(q)
  BY <1>1, <1>2
<1>4. QED
  BY <1>3, LeafParts DEF NextPart

(* What is stored stays, and is served as before.                           *)
RowsKept == \A n \in DOMAIN stored : n \in DOMAIN stored' /\ stored'[n] = stored[n]

LEMMA NextKeepsRows ==
  ASSUME IInv, [Next]_vars
  PROVE  RowsKept /\ stored' \in Seq(Media)
<1>1. stored \in Seq(Media)
  BY DEF IInv, TypeOK
<1>2. CASE stored' = stored
  BY <1>1, <1>2 DEF RowsKept
<1>3. ASSUME walk.on, NEW q \in Places, ReplacePart(q)
      PROVE  RowsKept /\ stored' \in Seq(Media)
  <2>1. NextPart(q) \in Part
    BY <1>3, NextPartIsThere DEF ReplacePart
  <2>2. CASE NextPart(q).form = "inline"
    <3>1. PICK c \in Contents : c = NextPart(q).content
      BY <2>1, <2>2, PartKinds
    <3>2. stored' = MediaFor(c, stored)
      BY <1>3, <2>2, <3>1 DEF ReplacePart
    <3>3. LET new == MediaFor(c, stored)
          IN  /\ new \in Seq(Media)
              /\ \A n \in DOMAIN stored : n \in DOMAIN new /\ new[n] = stored[n]
      BY <1>1, MediaForStores
    <3>4. QED
      BY <3>2, <3>3 DEF RowsKept
  <2>3. CASE NextPart(q).form # "inline"
    BY <1>2, <1>3, <2>3 DEF ReplacePart
  <2>4. QED
    BY <2>2, <2>3
<1>4. ASSUME walk.on, NEW q \in Places, Fail(q)
      PROVE  RowsKept /\ stored' \in Seq(Media)
  <2>1. NextPart(q).content \in Contents
    BY <1>4, NextPartIsThere, PartKinds DEF Fail
  <2>2. ASSUME NEW file \in BOOLEAN, stored' = Append(stored, Row(NextPart(q).content, file))
        PROVE  RowsKept /\ stored' \in Seq(Media)
    <3>1. Row(NextPart(q).content, file) \in Media
      BY <2>1 DEF Row, Media
    <3>2. QED
      BY <1>1, <2>2, <3>1 DEF RowsKept
  <2>3. QED
    BY <1>2, <1>4, <2>2 DEF Fail
<1>5. \/ stored' = stored
      \/ walk.on /\ \E q \in Places : ReplacePart(q) \/ Fail(q)
  BY DEF Next, vars, Save, RefuseNumber, Finish, Correct, Reload, Refuse
<1>6. QED
  BY <1>2, <1>3, <1>4, <1>5

LEMMA ServedKept ==
  ASSUME RowsKept, NEW n, Served(n)
  PROVE  Served(n)'
BY DEF RowsKept, Served

(* Every tree in hand after a step has URLs that were served before it or    *)
(* are served now.                                                          *)
LEMMA URLsKept ==
  ASSUME IInv, RowsKept,
         \A t \in {doc'} \cup ({saved'} \ {None}) : \A part \in PartsOf(t) :
           part.form = "url" => Served(part.id) \/ Served(part.id)'
  PROVE  URLsServed'
<1>1. ASSUME NEW t \in {doc'} \cup ({saved'} \ {None}), NEW part \in PartsOf(t),
             part.form = "url"
      PROVE  part.id \in DOMAIN stored' /\ stored'[part.id].file
  <2>1. PICK n : n = part.id
    OBVIOUS
  <2>2. Served(n)'
    BY <1>1, <2>1, ServedKept DEF Served, RowsKept
  <2>3. QED
    BY <2>1, <2>2 DEF Served
<1>2. QED
  BY <1>1 DEF URLsServed, Served, PartsOf

LEMMA SameTrees ==
  ASSUME IInv, RowsKept, UNCHANGED <<doc, saved>>
  PROVE  URLsServed'
BY URLsKept DEF IInv, URLsServed

(* Replacing one part: the part put out stands for the part read, and the    *)
(* image that was read is the only one added.                               *)
LEMMA PartIsReplaced ==
  ASSUME IInv, walk.on, NEW q \in Places, ReplacePart(q)
  PROVE  /\ Replaced(NextPart(q), stored') \in Part
         /\ IsReplaced(Replaced(NextPart(q), stored'), NextPart(q), stored')
         /\ Images \subseteq Images'
         /\ \A c \in Images' \ Images : NextPart(q) = Inline(c)
<1>1. stored \in Seq(Media) /\ NextPart(q) \in Part
  BY WalkOn, NextPartIsThere DEF ReplacePart
<1>2. CASE NextPart(q).form = "inline"
  <2>1. PICK c \in Contents : c = NextPart(q).content /\ NextPart(q) = Inline(c)
    BY <1>1, <1>2, PartKinds
  <2>2. stored' = MediaFor(c, stored)
    BY <1>2, <2>1 DEF ReplacePart
  <2>3. /\ stored' \in Seq(Media)
        /\ \A n \in DOMAIN stored : n \in DOMAIN stored' /\ stored'[n] = stored[n]
        /\ \A n \in DOMAIN stored' : n \in DOMAIN stored \/ stored'[n] = Row(c, TRUE)
        /\ Position(c, stored') \in DOMAIN stored' /\ stored'[Position(c, stored')] = Row(c, TRUE)
    <3> DEFINE new == MediaFor(c, stored)
    <3>1. /\ new \in Seq(Media)
          /\ \A n \in DOMAIN stored : n \in DOMAIN new /\ new[n] = stored[n]
          /\ \A n \in DOMAIN new : n \in DOMAIN stored \/ new[n] = Row(c, TRUE)
          /\ Position(c, new) \in DOMAIN new /\ new[Position(c, new)] = Row(c, TRUE)
      BY <1>1, MediaForStores
    <3>2. QED
      BY <2>2, <3>1
  <2>4. PICK n : n = Position(c, stored')
    OBVIOUS
  <2>5. n \in Nat /\ Replaced(NextPart(q), stored') = URL(n)
    <3>1. n \in DOMAIN stored' /\ stored' \in Seq(Media)
      BY <2>3, <2>4
    <3>2. n \in Nat
      BY <3>1
    <3>3. Replaced(NextPart(q), stored') = URL(Position(c, stored'))
      BY <1>2, <2>1 DEF Replaced
    <3>4. QED
      BY <2>4, <3>2, <3>3
  <2>6. IsReplaced(URL(n), NextPart(q), stored')
    BY <1>2, <2>1, <2>3, <2>4 DEF IsReplaced, URL
  <2>7. Images \subseteq Images'
    BY <2>3 DEF Images
  <2>8. \A b \in Images' \ Images : b = c
    BY <2>3 DEF Images, Row
  <2>9. QED
    BY <2>1, <2>5, <2>6, <2>7, <2>8, PartKinds
<1>3. CASE NextPart(q).form # "inline"
  <2>1. stored' = stored /\ Replaced(NextPart(q), stored') = NextPart(q)
    BY <1>3 DEF ReplacePart, Replaced
  <2>2. Images' = Images
    BY <2>1 DEF Images
  <2>3. QED
    BY <1>1, <1>3, <2>1, <2>2 DEF IsReplaced
<1>4. QED
  BY <1>2, <1>3

LEMMA ReplacePartIInv ==
  ASSUME IInv, walk.on, NEW q \in Places, ReplacePart(q)
  PROVE  IInv'
<1> DEFINE part == NextPart(q)
           new  == Replaced(part, stored')
           k    == Len(walk.out[q]) + 1
<1>1. /\ IsTree(doc) /\ stored \in Seq(Media) /\ answer = "none" /\ Readable(doc)
      /\ walk \in Walking /\ walk.tree = Normal(doc) /\ IsTree(walk.tree)
      /\ walk.out \in [Places -> Seq(Part)]
      /\ OutIsReplaced /\ StoredIsRead /\ InOrder
  BY WalkOn
<1>2. Turn(q) /\ UNCHANGED <<doc, saved, answer>>
  BY DEF ReplacePart
<1>3. k \in DOMAIN Leaf(q) /\ part = Leaf(q)[k] /\ part \in Part
  BY <1>2, NextPartIsThere
<1>4. /\ RowsKept /\ stored' \in Seq(Media)
      /\ new \in Part /\ IsReplaced(new, part, stored')
      /\ Images \subseteq Images'
      /\ \A c \in Images' \ Images : part = Inline(c)
  BY PartIsReplaced, NextKeepsRows DEF Next
<1>5. part.form # "broken" /\ walk' = [walk EXCEPT !.out[q] = Append(@, new)]
  BY DEF ReplacePart
<1> HIDE DEF part, new
<1>6. /\ walk'.out = [walk.out EXCEPT ![q] = Append(walk.out[q], new)]
      /\ walk'.before = walk.before /\ walk'.on = TRUE /\ walk'.tree = walk.tree
  BY <1>1, <1>5 DEF Walking
<1>7. walk.out[q] \in Seq(Part) /\ Leaf(q) \in Seq(Part)
  BY LeafParts
<1>8. /\ walk'.out[q] = Append(walk.out[q], new)
      /\ walk'.out[q] \in Seq(Part) /\ Len(walk'.out[q]) = k /\ k \in Nat
      /\ walk'.out[q][k] = new
      /\ \A j \in 1..Len(walk.out[q]) : walk'.out[q][j] = walk.out[q][j]
      /\ \A j \in 1..k : j = k \/ j \in 1..Len(walk.out[q])
      /\ \A p \in Places : p # q => walk'.out[p] = walk.out[p]
  BY <1>1, <1>4, <1>6, <1>7
<1>9. Places' = Places /\ \A p : Leaf(p)' = Leaf(p)
  BY <1>6 DEF Places, Leaf
<1>10. TypeOK'
  <2>1. walk'.out \in [Places -> Seq(Part)]
    BY <1>1, <1>6, <1>8
  <2>2. walk' \in [tree : {Normal(doc)}, out : [Places -> Seq(Part)],
                   before : SUBSET Contents, on : {TRUE}]
    BY <1>1, <1>5, <1>6, <2>1 DEF Walking
  <2>3. (walk \in Walking)'
    BY <1>2, <1>9, <2>2 DEF Walking
  <2>4. (IsTree(doc) /\ Readable(doc) /\ answer = "none")' /\ (saved = None \/ IsTree(saved))'
    BY <1>1, <1>2 DEF IInv, TypeOK
  <2>5. QED
    BY <1>4, <2>3, <2>4 DEF TypeOK
<1>11. OutIsReplaced'
  <2> SUFFICES ASSUME NEW p \in Places
               PROVE  /\ Len(walk'.out[p]) <= Len(Leaf(p))
                      /\ \A j \in 1..Len(walk'.out[p]) :
                           /\ Leaf(p)[j].form # "broken"
                           /\ IsReplaced(walk'.out[p][j], Leaf(p)[j], stored')
    BY <1>9 DEF OutIsReplaced
  <2>1. ASSUME NEW j \in 1..Len(walk.out[p])
        PROVE  /\ Leaf(p)[j].form # "broken"
               /\ IsReplaced(walk.out[p][j], Leaf(p)[j], stored')
    BY <1>1, <1>4, <2>1 DEF OutIsReplaced, IsReplaced, RowsKept
  <2>2. CASE p = q
    <3>1. Len(walk'.out[q]) <= Len(Leaf(q))
      BY <1>3, <1>7, <1>8
    <3>2. Leaf(q)[k].form # "broken" /\ IsReplaced(walk'.out[q][k], Leaf(q)[k], stored')
      BY <1>3, <1>4, <1>5, <1>8
    <3> HIDE DEF k
    <3>3. QED
      BY <1>8, <2>1, <2>2, <3>1, <3>2
  <2>3. CASE p # q
    BY <1>1, <1>8, <2>1, <2>3 DEF OutIsReplaced
  <2>4. QED
    BY <2>2, <2>3
<1>12. StoredIsRead'
  <2>1. walk'.before \subseteq Images'
    BY <1>1, <1>4, <1>6 DEF StoredIsRead
  <2>2. ASSUME NEW c \in Images' \ walk'.before
        PROVE  \E p \in Places : \E j \in 1..Len(walk'.out[p]) : Leaf(p)[j] = Inline(c)
    <3>1. CASE c \in Images
      <4>1. PICK p \in Places : \E j \in 1..Len(walk.out[p]) : Leaf(p)[j] = Inline(c)
        BY <1>1, <1>6, <2>2, <3>1 DEF StoredIsRead
      <4>2. 1..Len(walk.out[p]) \subseteq 1..Len(walk'.out[p])
        BY <1>7, <1>8
      <4>3. QED
        BY <4>1, <4>2
    <3>2. CASE c \notin Images
      <4>1. Leaf(q)[k] = Inline(c)
        BY <1>3, <1>4, <2>2, <3>2
      <4>2. k \in 1..Len(walk'.out[q])
        BY <1>7, <1>8
      <4>3. QED
        BY <4>1, <4>2
    <3>3. QED
      BY <3>1, <3>2
  <2>3. QED
    BY <1>9, <2>1, <2>2 DEF StoredIsRead
<1>13. InOrder'
  <2> SUFFICES ASSUME NEW p \in Places, NEW s \in Places,
                      Precedes(p, s), walk'.out[s] # <<>>
               PROVE  Done(p)'
    BY <1>6, <1>9 DEF InOrder, Precedes
  <2>1. ~Done(q) /\ (Precedes(p, q) => Done(p))
    BY <1>2 DEF Turn
  <2>2. s # q => Done(p)
    BY <1>1, <1>8 DEF InOrder
  <2>3. Done(p) /\ p # q
    BY <2>1, <2>2
  <2>4. QED
    BY <1>8, <1>9, <2>3 DEF Done
<1>14. URLsServed'
  BY <1>2, <1>4, SameTrees
<1>15. QED
  BY <1>6, <1>10, <1>11, <1>12, <1>13, <1>14 DEF IInv

LEMMA InitIInv == Init => IInv
BY StateTreeAssumption DEF Init, IInv, TypeOK, Off, URLsServed

LEMMA SaveIInv ==
  ASSUME IInv, Save
  PROVE  IInv'
<1>1. walk = Off /\ Readable(doc) /\ UNCHANGED <<doc, saved, stored>> /\ answer' = "none"
  BY DEF Save
<1>2. IsTree(doc) /\ stored \in Seq(Media) /\ (saved = None \/ IsTree(saved))
  BY DEF IInv, TypeOK
<1>3. walk' = [tree |-> Normal(doc), out |-> [p \in DOMAIN Normal(doc).leaves |-> <<>>],
               before |-> Images, on |-> TRUE]
  BY DEF Save
<1>4. Images \subseteq Contents /\ Images' = Images
  <2>1. \A n \in DOMAIN stored : stored[n] \in Media
    BY <1>2
  <2>2. \A n \in DOMAIN stored : stored[n].content \in Contents
    BY <2>1 DEF Media
  <2>3. QED
    BY <1>1, <2>2 DEF Images
<1>5. Places' = DOMAIN Normal(doc).leaves /\ \A p : Leaf(p)' = Normal(doc).leaves[p]
  BY <1>3 DEF Places, Leaf
<1>6. (walk \in Walking)'
  BY <1>1, <1>3, <1>4, <1>5 DEF Walking
<1>7. TypeOK'
  BY <1>1, <1>2, <1>6 DEF TypeOK
<1>8. \A p \in Places' : Len(walk'.out[p]) = 0 /\ walk'.out[p] = <<>>
  BY <1>3, <1>5
<1>9. OutIsReplaced'
  <2> SUFFICES ASSUME NEW p \in Places'
               PROVE  0 <= Len(Leaf(p)')
    BY <1>8 DEF OutIsReplaced
  <2>1. Normal(doc).leaves[p] \in Seq(Part)
    BY <1>1, <1>2, <1>5, NormalIsTree, TreeParts
  <2>2. QED
    BY <1>5, <2>1
<1>10. StoredIsRead'
  BY <1>3, <1>4 DEF StoredIsRead
<1>11. InOrder'
  BY <1>8 DEF InOrder
<1>12. URLsServed'
  BY <1>1, SameTrees DEF RowsKept
<1>13. QED
  BY <1>7, <1>9, <1>10, <1>11, <1>12 DEF IInv

(* A step after which no walk is on.                                        *)
LEMMA StoppedIInv ==
  ASSUME IInv, [Next]_vars, walk' = Off, IsTree(doc'), saved' = None \/ IsTree(saved'),
         \A t \in {doc'} \cup ({saved'} \ {None}) : \A part \in PartsOf(t) :
           part.form = "url" => Served(part.id) \/ Served(part.id)'
  PROVE  IInv'
<1>1. RowsKept /\ stored' \in Seq(Media)
  BY NextKeepsRows
<1>2. URLsServed'
  BY <1>1, URLsKept
<1>3. TypeOK'
  BY <1>1 DEF TypeOK
<1>4. ~walk'.on
  BY DEF Off
<1>5. QED
  BY <1>2, <1>3, <1>4 DEF IInv

(* What a finished walk has made of the state.                              *)
LEMMA KeptParts ==
  ASSUME IInv, walk.on, NEW p \in Places, Done(p)
  PROVE  /\ Kept(p) \in Seq(Part) /\ Len(Kept(p)) = Len(Leaf(p))
         /\ \A k \in DOMAIN Leaf(p) : /\ Leaf(p)[k].form # "broken"
                                      /\ IsReplaced(Kept(p)[k], Leaf(p)[k], stored)
<1>1. Leaf(p) \in Seq(Part) /\ walk.out[p] \in Seq(Part) /\ OutIsReplaced
  BY WalkOn, LeafParts
<1>2. CASE HasImage(Leaf(p))
  <2>1. Kept(p) = walk.out[p] /\ Len(walk.out[p]) = Len(Leaf(p))
    BY <1>2 DEF Kept, Done
  <2>2. DOMAIN Leaf(p) = 1..Len(walk.out[p])
    BY <1>1, <2>1
  <2>3. QED
    BY <1>1, <2>1, <2>2 DEF OutIsReplaced
<1>3. CASE ~HasImage(Leaf(p))
  BY <1>1, <1>3 DEF Kept, HasImage, IsReplaced
<1>4. QED
  BY <1>2, <1>3

LEMMA FinishSaves ==
  ASSUME IInv, walk.on, \A p \in Places : Done(p),
         NEW new, new = Tree([p \in Places |-> Kept(p)], walk.tree.arrays)
  PROVE  /\ IsTree(new) /\ new.arrays = walk.tree.arrays /\ DOMAIN new.leaves = Places
         /\ \A p \in Places : new.leaves[p] = Kept(p)
         /\ \A part \in PartsOf(new) : part.form = "url" => Served(part.id)
<1>1. IsTree(doc) /\ Readable(doc) /\ IsTree(walk.tree) /\ walk.tree = Normal(doc)
  BY WalkOn
<1>2. /\ new.arrays = walk.tree.arrays /\ DOMAIN new.leaves = Places
      /\ \A p \in Places : new.leaves[p] = Kept(p)
  BY DEF Tree
<1>3. \A p \in Places : Kept(p) \in Seq(Part)
  BY KeptParts
<1>4. IsTree(new)
  BY <1>1, <1>2, <1>3 DEF IsTree, Places
<1>5. ASSUME NEW part \in PartsOf(new), part.form = "url"
      PROVE  Served(part.id)
  <2>1. PICK p \in Places : \E k \in DOMAIN Kept(p) : part = Kept(p)[k]
    BY <1>2, <1>4, PartsAreParts
  <2>2. PICK k \in DOMAIN Kept(p) : part = Kept(p)[k]
    BY <2>1
  <2>3. k \in DOMAIN Leaf(p)
    BY <1>3, <2>2, KeptParts, LeafParts
  <2>4. IsReplaced(part, Leaf(p)[k], stored)
    BY <2>2, <2>3, KeptParts
  <2>5. CASE Leaf(p)[k].form = "inline"
    BY <2>4, <2>5 DEF IsReplaced, Served, Row
  <2>6. CASE Leaf(p)[k].form # "inline"
    <3>1. part \in PartsOf(walk.tree)
      BY <2>3, <2>4, <2>6, LeafParts DEF IsReplaced
    <3>2. part \in PartsOf(doc)
      BY <1>1, <1>5, <3>1, NormalURLs
    <3>3. QED
      BY <1>5, <3>2 DEF IInv, URLsServed
  <2>7. QED
    BY <2>5, <2>6
<1>6. QED
  BY <1>2, <1>4, <1>5

LEMMA FinishIInv ==
  ASSUME IInv, Finish
  PROVE  IInv'
<1>1. /\ walk.on /\ (\A p \in Places : Done(p)) /\ walk' = Off /\ UNCHANGED <<doc, stored>>
      /\ saved' = saved \/ saved' = Tree([p \in Places |-> Kept(p)], walk.tree.arrays)
      /\ [Next]_vars
  BY DEF Finish, End, Next
<1>2. TypeOK /\ URLsServed
  BY DEF IInv
<1>3. CASE saved' = saved
  BY <1>1, <1>2, <1>3, StoppedIInv DEF TypeOK, URLsServed
<1>4. CASE saved' = Tree([p \in Places |-> Kept(p)], walk.tree.arrays)
  <2>1. IsTree(saved') /\ \A part \in PartsOf(saved') : part.form = "url" => Served(part.id)
    BY <1>1, <1>4, FinishSaves
  <2>2. QED
    BY <1>1, <1>2, <2>1, StoppedIInv DEF TypeOK, URLsServed
<1>5. QED
  BY <1>1, <1>3, <1>4

LEMMA CorrectIInv ==
  ASSUME IInv, Correct
  PROVE  IInv'
<1>1. /\ walk = Off /\ UNCHANGED <<saved, stored, walk, answer>> /\ [Next]_vars
      /\ doc' = Tree([p \in DOMAIN doc.leaves |-> Mend(doc.leaves[p])], doc.arrays)
  BY DEF Correct, Next
<1>2. TypeOK /\ URLsServed /\ IsTree(doc)
  BY DEF IInv, TypeOK
<1>3. ASSUME NEW p \in DOMAIN doc.leaves
      PROVE  /\ Mend(doc.leaves[p]) \in Seq(Part)
             /\ \A k \in DOMAIN Mend(doc.leaves[p]) :
                  Mend(doc.leaves[p])[k] \in PartsOf(doc) \cup {Plain(Blank)}
  <2>1. /\ doc.leaves[p] \in Seq(Part)
        /\ \A k \in DOMAIN doc.leaves[p] :
             doc.leaves[p][k] \in Part /\ doc.leaves[p][k] \in PartsOf(doc)
    BY <1>2, TreeParts
  <2>2. /\ Mend(doc.leaves[p]) \in [1..Len(doc.leaves[p]) -> Part]
        /\ \A k \in DOMAIN Mend(doc.leaves[p]) :
             Mend(doc.leaves[p])[k] \in PartsOf(doc) \cup {Plain(Blank)}
    BY <2>1, PartKinds DEF Mend
  <2>3. QED
    BY <2>1, <2>2
<1>4. /\ DOMAIN doc'.leaves = DOMAIN doc.leaves /\ doc'.arrays = doc.arrays
      /\ \A p \in DOMAIN doc.leaves : doc'.leaves[p] = Mend(doc.leaves[p])
  BY <1>1 DEF Tree
<1>5. IsTree(doc')
  BY <1>2, <1>3, <1>4 DEF IsTree
<1>6. ASSUME NEW part \in PartsOf(doc')
      PROVE  part \in PartsOf(doc) \cup {Plain(Blank)}
  <2>1. PICK p \in DOMAIN doc'.leaves : \E k \in DOMAIN doc'.leaves[p] : part = doc'.leaves[p][k]
    BY <1>5, PartsAreParts
  <2>2. PICK k \in DOMAIN doc'.leaves[p] : part = doc'.leaves[p][k]
    BY <2>1
  <2>3. p \in DOMAIN doc.leaves /\ doc'.leaves[p] = Mend(doc.leaves[p])
    BY <1>4
  <2>4. QED
    BY <1>3, <2>2, <2>3
<1>7. Plain(Blank).form # "url"
  BY DEF Plain
<1>8. QED
  BY <1>1, <1>2, <1>5, <1>6, <1>7, StoppedIInv DEF TypeOK, URLsServed

LEMMA ReloadIInv ==
  ASSUME IInv, Reload
  PROVE  IInv'
<1>1. /\ walk = Off /\ saved # None /\ doc' = saved /\ [Next]_vars
      /\ UNCHANGED <<saved, stored, walk, answer>>
  BY DEF Reload, Next
<1>2. TypeOK /\ URLsServed
  BY DEF IInv
<1>3. QED
  BY <1>1, <1>2, StoppedIInv DEF TypeOK, URLsServed

LEMMA NextIInv == IInv /\ [Next]_vars => IInv'
<1> SUFFICES ASSUME IInv, [Next]_vars
             PROVE  IInv'
  OBVIOUS
<1>1. CASE Save
  BY <1>1, SaveIInv
<1>2. CASE Finish
  BY <1>2, FinishIInv
<1>3. CASE Correct
  BY <1>3, CorrectIInv
<1>4. CASE Reload
  BY <1>4, ReloadIInv
<1>5. ASSUME walk.on, NEW q \in Places, ReplacePart(q)
      PROVE  IInv'
  BY <1>5, ReplacePartIInv
<1>6. ASSUME UNCHANGED <<doc, saved>>, walk' = Off
      PROVE  IInv'
  <2>1. TypeOK /\ URLsServed
    BY DEF IInv
  <2>2. QED
    BY <1>6, <2>1, StoppedIInv DEF TypeOK, URLsServed
<1>7. ASSUME NEW q \in Places, Refuse(q) \/ Fail(q)
      PROVE  IInv'
  <2>1. UNCHANGED <<doc, saved>> /\ walk' = Off
    BY <1>7 DEF Refuse, Fail, End
  <2>2. QED
    BY <1>6, <2>1
<1>8. CASE RefuseNumber
  <2>1. UNCHANGED <<doc, saved>> /\ walk' = Off
    BY <1>8 DEF RefuseNumber
  <2>2. QED
    BY <1>6, <2>1
<1>9. CASE UNCHANGED vars
  <2>1. UNCHANGED <<doc, saved, stored, walk, answer>>
    BY <1>9 DEF vars
  <2>2. TypeOK' = TypeOK
    BY <2>1 DEF TypeOK, Walking, Places
  <2>3. URLsServed'
    BY <2>1, SameTrees DEF RowsKept
  <2>4. OutIsReplaced' = OutIsReplaced
    BY <2>1 DEF OutIsReplaced, Places, Leaf
  <2>5. StoredIsRead' = StoredIsRead
    BY <2>1 DEF StoredIsRead, Images, Places, Leaf
  <2>6. InOrder' = InOrder
    BY <2>1 DEF InOrder, Precedes, Done, Places, Leaf
  <2>7. QED
    BY <2>1, <2>2, <2>3, <2>4, <2>5, <2>6 DEF IInv
<1>10. QED
  BY <1>1, <1>2, <1>3, <1>4, <1>5, <1>7, <1>8, <1>9 DEF Next

(***************************************************************************)
(* The theorems.                                                           *)
(***************************************************************************)

(* The server always holds trees: decoding, the walk, the client's           *)
(* corrections and the reloads lead from trees to trees, and what is stored  *)
(* are images.                                                               *)
THEOREM TypeCorrect == Spec => []TypeOK
<1>1. IInv => TypeOK
  BY DEF IInv
<1>2. QED
  BY <1>1, InitIInv, NextIInv, PTL DEF Spec

(* However many answers of SaveMedia were lost before, the URLs in what the  *)
(* server has saved and the client holds name rows whose files are there.    *)
THEOREM EveryURLIsServed == Spec => []URLsServed
<1>1. IInv => URLsServed
  BY DEF IInv
<1>2. QED
  BY <1>1, InitIInv, NextIInv, PTL DEF Spec

(* What a walk does when a save ends, whichever way.                        *)
LEMMA HowASaveEnds ==
  ASSUME IInv, [Next]_vars, answer' # answer
  PROVE  \/ answer' = "none" /\ saved' = saved
         \/ Finish /\ answer' \in {"saved", "failed"}
         \/ RefuseNumber /\ answer' = "refused" /\ saved' = saved
         \/ walk.on /\ \E q \in Places : Refuse(q) /\ answer' = "refused" /\ saved' = saved
         \/ answer' = "failed" /\ saved' = saved
<1>1. ~Correct /\ ~Reload /\ Next /\ \A q \in Places : ~ReplacePart(q)
  BY DEF Correct, Reload, ReplacePart, vars
<1>2. Save => answer' = "none" /\ saved' = saved
  BY DEF Save
<1>3. Finish => answer' \in {"saved", "failed"}
  BY DEF Finish, End
<1>4. RefuseNumber => answer' = "refused" /\ saved' = saved
  BY DEF RefuseNumber
<1>5. \A q \in Places : /\ Refuse(q) => answer' = "refused" /\ saved' = saved
                        /\ Fail(q) => answer' = "failed" /\ saved' = saved
  BY DEF Refuse, Fail, End
<1>6. QED
  BY <1>1, <1>2, <1>3, <1>4, <1>5 DEF Next

LEMMA FinishSavesAsSent ==
  ASSUME IInv, Finish, answer' = "saved"
  PROVE  IF doc = NullState THEN saved' = Empty
         ELSE /\ saved'.arrays = doc.arrays /\ DOMAIN saved'.leaves = DOMAIN doc.leaves
              /\ \A p \in DOMAIN doc.leaves :
                   /\ Len(saved'.leaves[p]) = Len(doc.leaves[p])
                   /\ \A k \in DOMAIN doc.leaves[p] :
                        /\ ~Bad(doc.leaves[p][k])
                        /\ StandsFor(saved'.leaves[p][k], doc.leaves[p][k], stored')
<1>1. /\ walk.on /\ (\A p \in Places : Done(p)) /\ stored' = stored
      /\ saved' = Tree([p \in Places |-> Kept(p)], walk.tree.arrays)
  BY DEF Finish, End
<1>2. IsTree(doc) /\ Readable(doc) /\ walk.tree = Normal(doc)
  BY <1>1, WalkOn
<1>3. CASE doc = NullState
  <2>1. walk.tree = Empty /\ Places = {}
    BY <1>2, <1>3, EmptyTree DEF Normal, Places
  <2>2. saved' = Tree([p \in {} |-> Kept(p)], Empty.arrays)
    BY <1>1, <2>1
  <2>3. [p \in {} |-> Kept(p)] = <<>> /\ Empty.arrays = {}
    BY DEF Empty, Tree
  <2>4. QED
    BY <1>3, <2>2, <2>3 DEF Empty
<1>4. CASE doc # NullState
  <2>1. /\ saved'.arrays = walk.tree.arrays /\ DOMAIN saved'.leaves = Places
        /\ \A p \in Places : saved'.leaves[p] = Kept(p)
    BY <1>1, FinishSaves
  <2>2. walk.tree.arrays = doc.arrays /\ Places = DOMAIN doc.leaves
    BY <1>2, <1>4, NormalTree DEF Places
  <2>3. ASSUME NEW p \in DOMAIN doc.leaves
        PROVE  /\ Len(Kept(p)) = Len(doc.leaves[p])
               /\ \A k \in DOMAIN doc.leaves[p] :
                    ~Bad(doc.leaves[p][k]) /\ StandsFor(Kept(p)[k], doc.leaves[p][k], stored)
    <3>1. /\ doc.leaves[p] \in Seq(Part) /\ Leaf(p) \in Seq(Part)
          /\ Len(Leaf(p)) = Len(doc.leaves[p])
          /\ \A k \in DOMAIN doc.leaves[p] : /\ doc.leaves[p][k] \in Part
                                             /\ ~TooLarge(doc.leaves[p][k])
                                             /\ Leaf(p)[k] = Decode(doc.leaves[p][k])
      BY <1>1, <1>2, <1>4, <2>2, NormalTree, TreeParts, LeafParts DEF Leaf
    <3>2. /\ Len(Kept(p)) = Len(Leaf(p))
          /\ \A k \in DOMAIN Leaf(p) : /\ Leaf(p)[k].form # "broken"
                                       /\ IsReplaced(Kept(p)[k], Leaf(p)[k], stored)
      BY <1>1, <2>2, KeptParts
    <3>3. ASSUME NEW k \in DOMAIN doc.leaves[p]
          PROVE  ~Bad(doc.leaves[p][k]) /\ StandsFor(Kept(p)[k], doc.leaves[p][k], stored)
      <4>1. PICK part \in Part : part = doc.leaves[p][k] /\ ~TooLarge(part) /\ Leaf(p)[k] = Decode(part)
        BY <3>1
      <4>2. Decode(part).form # "broken" /\ IsReplaced(Kept(p)[k], Decode(part), stored)
        BY <3>1, <3>2, <4>1
      <4>3. Decode(part).form = part.form /\ (part.form # "plain" => Decode(part) = part)
        BY <4>1, DecodedPart
      <4>4. ~Bad(part) /\ StandsFor(Kept(p)[k], part, stored)
        BY <4>1, <4>2, <4>3 DEF Bad, StandsFor, IsReplaced
      <4>5. QED
        BY <4>1, <4>4
    <3>4. QED
      BY <3>1, <3>2, <3>3
  <2>4. QED
    BY <1>1, <1>4, <2>1, <2>2, <2>3
<1>5. QED
  BY <1>3, <1>4

(* A saved state is the one that was sent as JSON decoding leaves it, with    *)
(* served URLs of the same images for its inline images; only a bad image or  *)
(* a number out of range refuses it; a save that is refused or fails leaves   *)
(* the state saved before.                                                   *)
THEOREM StatesSavedAsSent == Spec => SavedAsSent
<1>1. ASSUME IInv, [Next]_vars, answer' # answer
      PROVE  /\ answer' = "saved" =>
                  IF doc = NullState THEN saved' = Empty
                  ELSE /\ saved'.arrays = doc.arrays /\ DOMAIN saved'.leaves = DOMAIN doc.leaves
                       /\ \A p \in DOMAIN doc.leaves :
                            /\ Len(saved'.leaves[p]) = Len(doc.leaves[p])
                            /\ \A k \in DOMAIN doc.leaves[p] :
                                 /\ ~Bad(doc.leaves[p][k])
                                 /\ StandsFor(saved'.leaves[p][k], doc.leaves[p][k], stored')
             /\ answer' = "refused" => \E part \in PartsOf(doc) : Bad(part)
             /\ answer' # "saved" => saved' = saved
  <2>1. CASE Finish /\ answer' = "saved"
    BY <1>1, <2>1, FinishSavesAsSent
  <2>2. CASE Finish /\ answer' = "failed"
    BY <2>2 DEF Finish, End
  <2>3. CASE RefuseNumber
    BY <2>3 DEF RefuseNumber, Readable, Bad
  <2>4. ASSUME walk.on, NEW q \in Places, Refuse(q)
        PROVE  \E part \in PartsOf(doc) : Bad(part)
    <3>1. Turn(q) /\ NextPart(q).form = "broken"
      BY <2>4 DEF Refuse
    <3>2. PICK k \in DOMAIN Leaf(q) : Leaf(q)[k].form = "broken"
      BY <1>1, <2>4, <3>1, NextPartIsThere
    <3>3. IsTree(doc) /\ Readable(doc) /\ walk.tree = Normal(doc)
      BY <1>1, <2>4, WalkOn
    <3>4. doc # NullState
      BY <3>3, EmptyTree DEF Normal, Places
    <3>5. q \in DOMAIN doc.leaves /\ doc.leaves[q] \in Seq(Part) /\ Leaf(q) \in Seq(Part)
      BY <1>1, <2>4, <3>3, <3>4, NormalTree, TreeParts, LeafParts DEF Places
    <3>6. k \in DOMAIN doc.leaves[q]
      BY <3>2, <3>3, <3>4, <3>5, NormalTree DEF Leaf
    <3>7. PICK part \in Part : /\ part = doc.leaves[q][k] /\ part \in PartsOf(doc)
                               /\ ~TooLarge(part) /\ Leaf(q)[k] = Decode(part)
      BY <3>3, <3>4, <3>5, <3>6, NormalTree, TreeParts DEF Leaf
    <3>8. part.form = "broken"
      BY <3>2, <3>7, DecodedPart
    <3>9. QED
      BY <3>7, <3>8 DEF Bad
  <2>5. QED
    BY <1>1, <2>1, <2>2, <2>3, <2>4, HowASaveEnds
<1>2. IInv /\ [Next]_vars =>
        [answer' # answer =>
           /\ answer' = "saved" =>
                IF doc = NullState THEN saved' = Empty
                ELSE /\ saved'.arrays = doc.arrays /\ DOMAIN saved'.leaves = DOMAIN doc.leaves
                     /\ \A p \in DOMAIN doc.leaves :
                          /\ Len(saved'.leaves[p]) = Len(doc.leaves[p])
                          /\ \A k \in DOMAIN doc.leaves[p] :
                               /\ ~Bad(doc.leaves[p][k])
                               /\ StandsFor(saved'.leaves[p][k], doc.leaves[p][k], stored')
           /\ answer' = "refused" => \E part \in PartsOf(doc) : Bad(part)
           /\ answer' # "saved" => saved' = saved]_vars
  BY <1>1
<1>3. QED
  BY <1>2, InitIInv, NextIInv, PTL DEF Spec, SavedAsSent

(* Where a walk is refused, every image before the bad one is stored, and    *)
(* nothing that was not there before comes only after it.                   *)
LEMMA RefusedInOrder ==
  ASSUME IInv, walk.on, NEW q \in Places, Refuse(q)
  PROVE  \E k \in DOMAIN Leaf(q) :
           /\ Leaf(q)[k] = Broken
           /\ walk.before \subseteq Images'
           /\ \A p \in Places : \A j \in DOMAIN Leaf(p) :
                Before(p, j, q, k) /\ Leaf(p)[j].form = "inline" =>
                  Leaf(p)[j].content \in Images'
           /\ \A c \in Images' \ walk.before :
                \E p \in Places : \E j \in DOMAIN Leaf(p) :
                  Leaf(p)[j] = Inline(c) /\ ~Before(q, k, p, j)
<1> DEFINE k == Len(walk.out[q]) + 1
<1>1. OutIsReplaced /\ StoredIsRead /\ InOrder
  BY WalkOn
<1>2. Turn(q) /\ NextPart(q).form = "broken" /\ stored' = stored
  BY DEF Refuse
<1>3. k \in DOMAIN Leaf(q) /\ Leaf(q)[k] = Broken
  BY <1>2, NextPartIsThere, PartKinds
<1>4. Images' = Images /\ walk.before \subseteq Images
  BY <1>1, <1>2 DEF StoredIsRead, Images
<1>5. \A p \in Places : Leaf(p) \in Seq(Part) /\ walk.out[p] \in Seq(Part)
  BY LeafParts
<1>6. ASSUME NEW p \in Places, NEW j \in DOMAIN Leaf(p),
             Before(p, j, q, k), Leaf(p)[j].form = "inline"
      PROVE  Leaf(p)[j].content \in Images
  <2>1. j \in 1..Len(walk.out[p])
    <3>1. CASE Precedes(p, q)
      <4>1. HasImage(Leaf(p))
        BY <1>6 DEF HasImage
      <4>2. Len(walk.out[p]) = Len(Leaf(p))
        BY <1>2, <3>1, <4>1 DEF Turn, Done
      <4>3. QED
        BY <1>5, <4>2
    <3>2. CASE p = q /\ j < k
      BY <1>5, <3>2
    <3>3. QED
      BY <1>6, <3>1, <3>2 DEF Before
  <2>2. IsReplaced(walk.out[p][j], Leaf(p)[j], stored)
    BY <1>1, <2>1 DEF OutIsReplaced
  <2>3. QED
    BY <1>6, <2>2 DEF IsReplaced, Images, Row
<1>7. ASSUME NEW c \in Images \ walk.before
      PROVE  \E p \in Places : \E j \in DOMAIN Leaf(p) :
               Leaf(p)[j] = Inline(c) /\ ~Before(q, k, p, j)
  <2>1. PICK p \in Places : \E j \in 1..Len(walk.out[p]) : Leaf(p)[j] = Inline(c)
    BY <1>1 DEF StoredIsRead
  <2>2. PICK j \in 1..Len(walk.out[p]) : Leaf(p)[j] = Inline(c)
    BY <2>1
  <2>3. j \in DOMAIN Leaf(p)
    <3>1. Len(walk.out[p]) <= Len(Leaf(p))
      BY <1>1 DEF OutIsReplaced
    <3>2. QED
      BY <1>5, <3>1
  <2>4. ~Precedes(q, p)
    <3>1. walk.out[p] # <<>>
      BY <1>5, <2>2
    <3>2. QED
      BY <1>1, <1>2, <3>1 DEF InOrder, Turn
  <2>5. ~(q = p /\ k < j)
    BY <1>5, <2>2
  <2>6. QED
    BY <2>2, <2>3, <2>4, <2>5 DEF Before
<1> HIDE DEF k
<1>8. QED
  BY <1>3, <1>4, <1>6, <1>7

(* A refused save has stored what comes before the bad image and nothing     *)
(* that comes only after it: the walk is in order and stops where it fails.  *)
(* A number out of range refuses the state before the walk.                  *)
THEOREM RefusalsStopThere == Spec => RefusalStopsThere
<1>1. ASSUME IInv, [Next]_vars, answer' # answer, answer' = "refused"
      PROVE  IF ~Readable(doc) THEN stored' = stored
             ELSE walk.on /\ \E q \in Places : Refuse(q)
  <2>1. CASE RefuseNumber
    BY <2>1 DEF RefuseNumber
  <2>2. CASE walk.on /\ \E q \in Places : Refuse(q)
    BY <1>1, <2>2, WalkOn
  <2>3. QED
    BY <1>1, <2>1, <2>2, HowASaveEnds
<1>2. IInv /\ [Next]_vars =>
        [answer' # answer /\ answer' = "refused" =>
           IF ~Readable(doc) THEN stored' = stored
           ELSE \E q \in Places : \E k \in DOMAIN Leaf(q) :
                  /\ Leaf(q)[k] = Broken
                  /\ walk.before \subseteq Images'
                  /\ \A p \in Places : \A j \in DOMAIN Leaf(p) :
                       Before(p, j, q, k) /\ Leaf(p)[j].form = "inline" =>
                         Leaf(p)[j].content \in Images'
                  /\ \A c \in Images' \ walk.before :
                       \E p \in Places : \E j \in DOMAIN Leaf(p) :
                         Leaf(p)[j] = Inline(c) /\ ~Before(q, k, p, j)]_vars
  BY <1>1, RefusedInOrder
<1>3. QED
  BY <1>2, InitIInv, NextIInv, PTL DEF Spec, RefusalStopsThere
=============================================================================
