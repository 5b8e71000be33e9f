----------------------------- MODULE StateTree -----------------------------
(***************************************************************************)
(* normalizeState (internal/app/server.go) and replaceInlineStateMedia     *)
(* (internal/app/state_media.go): a state is decoded, and a walk over its  *)
(* JSON tree puts a media URL in the place of every inline image, storing  *)
(* images as it meets them.  An image it cannot store ends the walk with   *)
(* an error; what it stored before stays.  A client whose save was refused *)
(* takes out what is bad and saves again.                                  *)
(*                                                                         *)
(* A tree is a leaf at each of its places, the path of indices that leads  *)
(* there.  An array is walked by index, an object in whatever order range  *)
(* visits its keys, and each item to its end before the next.  A string is *)
(* the sequence of its parts: text, images and URLs; a number, true, false *)
(* or null is a single part.  Saves that race are left out (module Media). *)
(***************************************************************************)
EXTENDS Naturals, SequencesExt

CONSTANTS
  Contents,       \* image bytes, told apart as their SHA-256 tells them apart
  Values,         \* texts and other values as clients write them
  Null,           \* the value null
  Decoded,        \* what encoding/json makes of a value, or OutOfRange
  OutOfRange,     \* a number no float64 stands for
  Blank,          \* what a client writes in the place of a bad part
  Trees,          \* states clients send
  MaxMedia,       \* bound on the rows of stored media
  None            \* nothing saved yet

VARIABLES
  doc,            \* the state the client holds
  saved,          \* the state the server saved last, or None
  stored,         \* media rows, oldest first; the URL is the position
  walk,           \* how far the walk over the decoded state has come, or Off
  answer          \* how the last save ended

vars == <<doc, saved, stored, walk, answer>>

Plain(v)  == [form |-> "plain", value |-> v]
Inline(c) == [form |-> "inline", content |-> c]
Broken    == [form |-> "broken"]   \* not base64, empty, or not an image
URL(n)    == [form |-> "url", id |-> n]

Part == [form : {"plain"}, value : Values] \cup [form : {"inline"}, content : Contents]
        \cup [form : {"broken"}] \cup [form : {"url"}, id : Nat]

Tree(leaves, arrays) == [leaves |-> leaves, arrays |-> arrays]

(* No leaf stands at a place inside another leaf.                           *)
IsTree(t) ==
  /\ \A p \in DOMAIN t.leaves : p \in Seq(Nat) /\ t.leaves[p] \in Seq(Part)
  /\ \A p, q \in DOMAIN t.leaves : ~IsStrictPrefix(p, q)
  /\ t.arrays \subseteq Seq(Nat)

PartsOf(t) == UNION {ToSet(t.leaves[p]) : p \in DOMAIN t.leaves}

Media == [content : Contents, file : BOOLEAN]   \* a row, and is its file there

ASSUME StateTreeAssumption ==
  /\ \A t \in Trees : IsTree(t) /\ \A part \in PartsOf(t) : part.form # "url"
  /\ Decoded \in [Values -> Values \cup {OutOfRange}] /\ OutOfRange \notin Values
  /\ Null \in Values /\ Decoded[Null] = Null
  /\ Blank \in Values /\ Decoded[Blank] = Blank
  /\ MaxMedia \in Nat

NullState == Tree([p \in {<<>>} |-> <<Plain(Null)>>], {})
Empty     == Tree(<<>>, {})        \* an object without keys

Off == [tree |-> Empty, out |-> <<>>, before |-> {}, on |-> FALSE]

Init ==
  /\ doc \in Trees /\ saved = None
  /\ stored = <<>> /\ walk = Off /\ answer = "none"

Places  == DOMAIN walk.tree.leaves
Leaf(p) == walk.tree.leaves[p]
-----------------------------------------------------------------------------
(* Numbers become float64, and text that is not UTF-8 is made UTF-8; null   *)
(* for the whole state stands for an empty one.                             *)
Decode(part) == IF part.form = "plain" THEN Plain(Decoded[part.value]) ELSE part
Normal(t) ==
  IF t = NullState THEN Empty
  ELSE Tree([p \in DOMAIN t.leaves |->
               [k \in DOMAIN t.leaves[p] |-> Decode(t.leaves[p][k])]], t.arrays)

TooLarge(part) == part.form = "plain" /\ Decoded[part.value] = OutOfRange
Readable(t)    == \A part \in PartsOf(t) : ~TooLarge(part)

(* FindMediaBySHA answers with the oldest row of the image; it is used again *)
(* if its file is there.                                                    *)
Oldest(content, media) ==
  CHOOSE n \in DOMAIN media :
    media[n].content = content /\ \A m \in 1..(n - 1) : media[m].content # content
IsStored(content, media) ==
  \E n \in DOMAIN media : /\ media[n].content = content /\ media[n].file
                          /\ \A m \in 1..(n - 1) : media[m].content # content

Row(content, file) == [content |-> content, file |-> file]

(* Definitions named Bad... are plausible mistakes in the ones they precede; *)
(* the specification never uses them.  Here, the file is not looked for.    *)
BadMediaFor(content, media) ==
  IF \E n \in DOMAIN media : media[n].content = content
  THEN media ELSE Append(media, Row(content, TRUE))
MediaFor(content, media) ==
  IF IsStored(content, media) THEN media ELSE Append(media, Row(content, TRUE))

(* The row an image is found under once MediaFor has stored it.             *)
Position(content, media) ==
  IF IsStored(content, media) THEN Oldest(content, media) ELSE Len(media)

Replaced(part, media) ==
  IF part.form = "inline" THEN URL(Position(part.content, media)) ELSE part

HasImage(parts) == \E k \in DOMAIN parts : parts[k].form \in {"inline", "broken"}

(* A leaf without images is left at once.                                   *)
Done(p) == HasImage(Leaf(p)) => Len(walk.out[p]) = Len(Leaf(p))

Precedes(p, q) ==
  \E c \in walk.tree.arrays : /\ IsStrictPrefix(c, p) /\ IsStrictPrefix(c, q)
                              /\ p[Len(c) + 1] < q[Len(c) + 1]

(* What has been entered is finished before anything outside it.            *)
DepthFirst(q) ==
  \A p, s \in Places :
    walk.out[p] # <<>> /\ ~Done(s) =>
      \A n \in 0..Len(p) : IsPrefix(SubSeq(p, 1, n), s) => IsPrefix(SubSeq(p, 1, n), q)

(* One goroutine for each item.                                             *)
BadTurn(q) == ~Done(q)
Turn(q) ==
  /\ ~Done(q)
  /\ \A p \in Places : Precedes(p, q) => Done(p)
  /\ DepthFirst(q)

NextPart(q) == Leaf(q)[Len(walk.out[q]) + 1]

Images == {stored[n].content : n \in {m \in DOMAIN stored : stored[m].file}}

(* normalizeState starts the walk.  (before is there for the properties.)   *)
Save ==
  /\ walk = Off /\ Readable(doc)
  /\ LET tree == Normal(doc)
     IN  walk' = [tree |-> tree, out |-> [p \in DOMAIN tree.leaves |-> <<>>],
                  before |-> Images, on |-> TRUE]
  /\ answer' = "none"
  /\ UNCHANGED <<doc, saved, stored>>

RefuseNumber ==
  /\ walk = Off /\ ~Readable(doc)
  /\ answer' = "refused"
  /\ UNCHANGED <<doc, saved, stored, walk>>

ReplacePart(q) ==
  /\ Turn(q)
  /\ NextPart(q).form # "broken"
  /\ stored' = IF NextPart(q).form = "inline" THEN MediaFor(NextPart(q).content, stored)
                                              ELSE stored
  /\ Len(stored') <= MaxMedia
  /\ walk' = [walk EXCEPT !.out[q] = Append(@, Replaced(NextPart(q), stored'))]
  /\ UNCHANGED <<doc, saved, answer>>

End(reply) == walk' = Off /\ answer' = reply /\ UNCHANGED doc

Refuse(q) ==
  /\ Turn(q)
  /\ NextPart(q).form = "broken"
  /\ End("refused")
  /\ UNCHANGED <<saved, stored>>

(* The disk or the database fails.  If SaveMedia had inserted the row and   *)
(* its answer was lost, the row stays, and the file too if it could not be  *)
(* removed again.                                                           *)
Fail(q) ==
  /\ Turn(q)
  /\ NextPart(q).form = "inline"
  /\ End("failed")
  /\ LET content == NextPart(q).content
     IN  \/ stored' = stored
         \/ /\ ~IsStored(content, stored) /\ Len(stored) < MaxMedia
            /\ \E file \in BOOLEAN : stored' = Append(stored, Row(content, file))
  /\ UNCHANGED saved

(* The condition the wrong way round: v[i] keeps what has changed.           *)
BadKept(p) == IF ~HasImage(Leaf(p)) THEN walk.out[p] ELSE Leaf(p)
Kept(p)    == IF HasImage(Leaf(p)) THEN walk.out[p] ELSE Leaf(p)

(* The walk returns, and the handler saves what it returned, or cannot.      *)
Finish ==
  /\ walk.on /\ \A p \in Places : Done(p)
  /\ \/ /\ saved' = Tree([p \in Places |-> Kept(p)], walk.tree.arrays)
        /\ End("saved")
     \/ saved' = saved /\ End("failed")
  /\ UNCHANGED stored

-----------------------------------------------------------------------------
(* The client takes the bad images and numbers out.                         *)
Mend(parts) ==
  [k \in DOMAIN parts |->
     IF parts[k].form = "broken" \/ TooLarge(parts[k]) THEN Plain(Blank) ELSE parts[k]]

Correct ==
  /\ walk = Off /\ answer = "refused"
  /\ doc' = Tree([p \in DOMAIN doc.leaves |-> Mend(doc.leaves[p])], doc.arrays)
  /\ UNCHANGED <<saved, stored, walk, answer>>

(* The client opens the digest again.                                       *)
Reload ==
  /\ walk = Off /\ saved # None
  /\ doc' = saved
  /\ UNCHANGED <<saved, stored, walk, answer>>

Next ==
  \/ Save \/ RefuseNumber \/ Finish \/ Correct \/ Reload
  \/ walk.on /\ \E q \in Places : ReplacePart(q) \/ Refuse(q) \/ Fail(q)

Spec == Init /\ [][Next]_vars

-----------------------------------------------------------------------------
(* A URL is answered from its row and file.                                 *)
Served(n) == n \in DOMAIN stored /\ stored[n].file

(* What stands in the saved state for a part of the state that was sent.    *)
StandsFor(new, old, media) ==
  IF old.form = "inline"
  THEN new.form = "url" /\ new.id \in DOMAIN media /\ media[new.id] = Row(old.content, TRUE)
  ELSE new = Decode(old)

Bad(part) == part.form = "broken" \/ TooLarge(part)

(* A state that is saved has a served URL of the same image where an inline  *)
(* image stood, in strings of one or several images and at any depth, and    *)
(* elsewhere what decoding makes of what was sent.  A bad image or a number  *)
(* out of range refuses it, and nothing else does; without the answer        *)
(* "saved" the state saved before stays.                                     *)
SavedAsSent ==
  [][answer' # answer =>
       /\ answer' = "saved" =>
            IF doc = NullState THEN saved' = Empty
            ELSE /\ saved'.arrays = doc.arrays /\ DOMAIN saved'.leaves = DOMAIN doc.leaves
                 /\ \A p \in DOMAIN doc.leaves :
                      /\ Len(saved'.leaves[p]) = Len(doc.leaves[p])
                      /\ \A k \in DOMAIN doc.leaves[p] :
                           /\ ~Bad(doc.leaves[p][k])
                           /\ StandsFor(saved'.leaves[p][k], doc.leaves[p][k], stored')
       /\ answer' = "refused" => \E part \in PartsOf(doc) : Bad(part)
       /\ answer' # "saved" => saved' = saved]_vars

Before(p, j, q, k) == Precedes(p, q) \/ (p = q /\ j < k)

(* A refused save leaves behind, besides what was there, every image that    *)
(* comes before a bad one in its string and in the arrays around it, and no  *)
(* image that comes only after it; none at all if a number is out of range.  *)
RefusalStopsThere ==
  [][answer' # answer /\ answer' = "refused" =>
       IF ~Readable(doc) THEN stored' = stored
       ELSE \E q \in Places : \E k \in DOMAIN Leaf(q) :
              /\ Leaf(q)[k] = Broken
              /\ walk.before \subseteq Images'
              /\ \A p \in Places : \A j \in DOMAIN Leaf(p) :
                   Before(p, j, q, k) /\ Leaf(p)[j].form = "inline" =>
                     Leaf(p)[j].content \in Images'
              /\ \A c \in Images' \ walk.before :
                   \E p \in Places : \E j \in DOMAIN Leaf(p) :
                     Leaf(p)[j] = Inline(c) /\ ~Before(q, k, p, j)]_vars

(* Whatever failed before, a save never takes up a row that a lost answer has *)
(* left without a file: the URLs a client gets, and sends back, are served.  *)
URLsServed ==
  \A t \in {doc} \cup ({saved} \ {None}) :
    \A part \in PartsOf(t) : part.form = "url" => Served(part.id)
=============================================================================
