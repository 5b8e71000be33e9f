------------------------- MODULE StateMigrationProofs -------------------------
(***************************************************************************)
(* The command that moves inline images into media rows and files, beside  *)
(* the server or with the server stopped, failing anywhere and run again:  *)
(* for any number of digests, revisions, images and runs.  What a running  *)
(* command holds is tied to the committed tables by one invariant for each *)
(* row it has read.                                                        *)
(***************************************************************************)
EXTENDS StateMigration, TLAPS

(***************************************************************************)
(* The inductive invariant, part by part.  First the tables and the media. *)
(***************************************************************************)
Refs(s) == {m \in MediaIds : \E p \in Places : s.images[p] = Stored(m)}

(* The image under this id is served, unless its user is gone.              *)
Good(m) ==
  /\ minted[m] # None
  /\ \/ minted[m] \notin users
     \/ rows[m] # None /\ files[m] = rows[m].content

MediaInOrder ==
  \A m \in MediaIds : rows[m] # None =>
    minted[m] = rows[m].owner /\ files[m] \in {None, rows[m].content}

KeysInOrder ==
  /\ \A x \in revisions : /\ digests[x.digest] # None
                          /\ x.version <= digests[x.digest].version
  /\ \A x, y \in revisions : x.digest = y.digest /\ x.version = y.version => x = y

CommittedServed == \A s \in Committed : \A m \in Refs(s) : Good(m)

(***************************************************************************)
(* Then what the running command holds: rows it is going to write back,    *)
(* has in hand or has written.                                             *)
(***************************************************************************)
Held == tool.pending \cup tool.written \cup ({tool.row} \ {None})

(* Served as soon as the transaction is committed.                          *)
Promised(m) == Good(m) \/ \E x \in tool.inserted : x.id = m

(* The state a row was read from, if the row is still there as it was.      *)
Current(x) ==
  IF x.table = "digests"
  THEN {digests[d].state : d \in {e \in DigestIds :
          e = x.digest /\ digests[e] # None /\ digests[e].version = x.version}}
  ELSE {y.state : y \in {z \in revisions : z.digest = x.digest /\ z.version = x.version}}

(* It shows what the row shows, its URLs are good, and the server, when it   *)
(* is stopped, has not touched the row.                                      *)
RowInOrder(x) ==
  /\ \A m \in Refs(x.state) : Promised(m)
  /\ digests[x.digest] # None => x.version <= digests[x.digest].version
  /\ \A s \in Current(x) : Means(x.state) = Means(s)
  /\ ~Serving => Current(x) # {}

HeldInOrder == \A x \in Held : RowInOrder(x)

Untouched(x) == x \in tool.pending \/ (x = tool.row /\ ~tool.changed)

UntouchedAsRead ==
  \A x \in Held : Untouched(x) => Current(x) \subseteq {x.state}

WrittenInOrder ==
  \A x \in tool.written : Matches(x.state) = {} /\ digests[x.digest] # None

InsertedInOrder ==
  \A x \in tool.inserted :
    minted[x.id] = x.owner /\ x.owner \in users /\ files[x.id] = x.content

KnownInOrder ==
  \A x \in tool.known :
    /\ minted[x.id] # None /\ files[x.id] \in {None, x.content}
    /\ files[x.id] # None => Promised(x.id)

(* A file that was written and has no row yet: nothing refers to it.        *)
FileInHand ==
  tool.place # None =>
    /\ tool.row # None /\ tool.id # None
    /\ tool.row.state.images[tool.place].form = "inline"
    /\ files[tool.id] = tool.row.state.images[tool.place].content
    /\ minted[tool.id] = tool.row.owner /\ rows[tool.id] = None
    /\ \A s \in Committed : tool.id \notin Refs(s)
    /\ \A x \in Held : tool.id \notin Refs(x.state)
    /\ \A x \in tool.inserted : x.id # tool.id
    /\ \A x \in tool.known : x.id # tool.id

Staged ==
  /\ tool.pc \notin {"digests", "revisions"} => tool.pending = {} /\ tool.row = None
  /\ \A x \in tool.pending \cup ({tool.row} \ {None}) : x.table = tool.pc

(* What the tables hold that the transaction must still, or did, rewrite.   *)
DigestsCovered ==
  tool.pc \in {"digests", "readRevisions", "revisions", "commit"} =>
    \A d \in DigestIds : digests[d] # None /\ Matches(digests[d].state) # {} =>
      \E x \in Held : /\ x.table = "digests" /\ x.digest = d
                      /\ x.version = digests[d].version
RevisionsCovered ==
  tool.pc \in {"revisions", "commit"} =>
    \A y \in revisions : Matches(y.state) # {} =>
      \E x \in Held : /\ x.table = "revisions" /\ x.digest = y.digest
                      /\ x.version = y.version

ToolInOrder ==
  tool # Off =>
    /\ outcome = "none"
    /\ HeldInOrder /\ UntouchedAsRead /\ WrittenInOrder
    /\ InsertedInOrder /\ KnownInOrder /\ FileInHand
    /\ Staged /\ DigestsCovered /\ RevisionsCovered

TablesInOrder == TypeOK /\ MediaInOrder /\ KeysInOrder /\ CommittedServed

IInv == TablesInOrder /\ NoInlineLeft /\ ToolInOrder

(***************************************************************************)
(* Images, states and rows.                                                *)
(***************************************************************************)
LEMMA ImageForms ==
  ASSUME NEW i \in Image
  PROVE  /\ i.form \in {"none", "inline", "broken", "foreign", "media"}
         /\ i.form = "inline" => i.content \in Contents
         /\ i.form = "media" => i.id \in MediaIds /\ i = Stored(i.id)
BY DEF Image, PlainImages, NoImage, Inline, Broken, Foreign, Stored

LEMMA StoredForm ==
  \A m : /\ Stored(m).form = "media" /\ Stored(m).id = m
        /\ \A n : Stored(m) = Stored(n) => m = n
BY DEF Stored

LEMMA PlainHasNoRefs ==
  ASSUME NEW s, s.images \in [Places -> PlainImages]
  PROVE  Refs(s) = {}
<1>1. \A i \in PlainImages : i.form # "media"
  BY DEF PlainImages, NoImage, Broken, Foreign, Inline
<1>2. QED
  BY <1>1, StoredForm DEF Refs

LEMMA StateFields ==
  ASSUME NEW s \in State
  PROVE  s.edit \in Edits /\ s.images \in [Places -> Image]
         /\ \A p \in Places : s.images[p] \in Image
BY DEF State

(* A state shows the same as long as the files it refers to do.             *)
LEMMA ShownKept ==
  ASSUME NEW s \in State, \A m \in Refs(s) : files'[m] = files[m]
  PROVE  Means(s)' = Means(s)
<1>1. ASSUME NEW p \in Places PROVE Meaning(s.images[p])' = Meaning(s.images[p])
  <2>1. s.images[p] \in Image
    BY StateFields
  <2>2. s.images[p].form = "media" => s.images[p].id \in Refs(s)
    BY <2>1, ImageForms DEF Refs
  <2>3. QED
    BY <2>2 DEF Meaning, PlainMeaning
<1>2. QED
  BY <1>1 DEF Means

(* An image replaced by the URL of a file that holds it.                    *)
Replaced(x, p, m) == [x EXCEPT !.state.images[p] = Stored(m)]

LEMMA ReplaceShows ==
  ASSUME NEW x \in Row, NEW p \in Places, NEW m \in MediaIds,
         x.state.images[p].form = "inline", files[m] = x.state.images[p].content,
         NEW y, y = Replaced(x, p, m)
  PROVE  /\ y \in Row /\ y.table = x.table /\ y.digest = x.digest
         /\ y.version = x.version /\ y.owner = x.owner
         /\ Means(y.state) = Means(x.state)
         /\ Refs(y.state) \subseteq Refs(x.state) \cup {m}
<1>1. x.state \in State
  BY DEF Row
<1>2. /\ x.state.images \in [Places -> Image] /\ x.state.edit \in Edits
      /\ \A q \in Places : x.state.images[q] \in Image
  BY <1>1 DEF State
<1>3. Stored(m) \in Image
  BY DEF Image
<1>4. /\ y.table = x.table /\ y.digest = x.digest
      /\ y.version = x.version /\ y.owner = x.owner
      /\ y.state = [x.state EXCEPT !.images[p] = Stored(m)]
  BY DEF Row, Replaced
<1>5. /\ y.state.edit = x.state.edit
      /\ y.state.images = [x.state.images EXCEPT ![p] = Stored(m)]
  BY <1>1, <1>4 DEF State
<1>6. y.state \in State
  BY <1>1, <1>2, <1>3, <1>4 DEF State
<1>7. y \in Row
  <2>1. y = [x EXCEPT !.state = y.state]
    BY <1>4 DEF Row, Replaced
  <2>2. QED
    BY <1>6, <2>1 DEF Row
<1>8. \A q \in Places : y.state.images[q] = IF q = p THEN Stored(m) ELSE x.state.images[q]
  BY <1>2, <1>5
<1>9. Means(y.state) = Means(x.state)
  <2>1. \A q \in Places : Meaning(y.state.images[q]) = Meaning(x.state.images[q])
    BY <1>8, StoredForm DEF Meaning, PlainMeaning
  <2>2. QED
    BY <1>5, <2>1 DEF Means
<1>10. Refs(y.state) \subseteq Refs(x.state) \cup {m}
  BY <1>8, StoredForm DEF Refs
<1>11. QED
  BY <1>4, <1>7, <1>9, <1>10

LEMMA RunningFields ==
  ASSUME NEW q \in Running
  PROVE  /\ q # Off
         /\ q.pc \in {"load", "readDigests", "digests", "readRevisions", "revisions",
                      "commit"}
         /\ q.known \in SUBSET Ref /\ q.pending \in SUBSET Row
         /\ q.row \in Row \cup {None} /\ q.changed \in BOOLEAN
         /\ q.place \in Places \cup {None} /\ q.id \in MediaIds \cup {None}
         /\ q.inserted \in SUBSET [id : MediaIds, owner : Users, content : Contents]
         /\ q.written \in SUBSET Row
BY DEF Running, Off

(* The rows the command holds, and the states in the tables, are such.     *)
LEMMA HeldAreRows ==
  ASSUME TypeOK, tool # Off
  PROVE  tool \in Running /\ \A x \in Held : x \in Row /\ x.state \in State
<1>1. tool \in Running
  BY DEF TypeOK
<1>2. QED
  BY <1>1, RunningFields DEF Held, Row

LEMMA CommittedAreStates ==
  ASSUME TypeOK
  PROVE  \A s \in Committed : s \in State
BY StateMigrationAssumption DEF TypeOK, Committed, Digest, Revision

(***************************************************************************)
(* The start.                                                              *)
(***************************************************************************)
LEMMA InitIInv == Init => IInv
<1>1. SUFFICES ASSUME Init PROVE IInv
  OBVIOUS
<1>2. /\ \A d \in DigestIds : digests[d] # None =>
           /\ digests[d] \in Digest /\ digests[d].version = 1
           /\ digests[d].state.images \in [Places -> PlainImages]
      /\ digests \in [DigestIds -> Digest \cup {None}]
  BY <1>1, StateMigrationAssumption DEF Init
<1>3. \A x \in revisions : /\ x.digest \in DigestIds /\ digests[x.digest] # None
                           /\ x.version = 1 /\ x.state = digests[x.digest].state
                           /\ x = [digest |-> x.digest, version |-> 1,
                                   state |-> digests[x.digest].state]
  BY <1>1 DEF Init
<1>4. /\ rows \in [MediaIds -> MediaRow \cup {None}]
      /\ files \in [MediaIds -> Contents \cup {None}]
      /\ \A m \in MediaIds : files[m] # None => rows[m] # None /\ files[m] = rows[m].content
      /\ minted = [m \in MediaIds |-> IF rows[m] = None THEN None ELSE rows[m].owner]
  BY <1>1, StateMigrationAssumption DEF Init
<1>5. TypeOK
  <2>1. 1 \in 1..MaxVersion /\ 0 \in 0..MaxRuns
    BY StateMigrationAssumption
  <2>2. revisions \subseteq Revision
    BY <1>1, <1>2, <1>3, <2>1 DEF Init, Digest, Revision
  <2>3. minted \in [MediaIds -> Users \cup {None}]
    BY <1>4 DEF MediaRow
  <2>4. \A m \in MediaIds : minted[m] = None => rows[m] = None /\ files[m] = None
    BY <1>4, StateMigrationAssumption DEF MediaRow
  <2>5. QED
    BY <1>1, <1>2, <1>4, <2>1, <2>2, <2>3, <2>4 DEF Init, TypeOK
<1>6. MediaInOrder
  BY <1>4 DEF MediaInOrder
<1>7. KeysInOrder
  BY <1>2, <1>3 DEF KeysInOrder, Digest
<1>8. CommittedServed
  <2>1. \A s \in Committed : s.images \in [Places -> PlainImages]
    BY <1>2, <1>3 DEF Committed
  <2>2. QED
    BY <2>1, PlainHasNoRefs DEF CommittedServed
<1>9. NoInlineLeft /\ ToolInOrder
  BY <1>1 DEF Init, NoInlineLeft, ToolInOrder
<1>10. QED
  BY <1>5, <1>6, <1>7, <1>8, <1>9 DEF IInv, TablesInOrder

(***************************************************************************)
(* Steps of the command that leave the tables and the media alone.         *)
(***************************************************************************)
Quiet == UNCHANGED <<users, digests, revisions, issued, rows, files, minted>>

LEMMA QuietFrame ==
  ASSUME Quiet
  PROVE  /\ \A m : Good(m)' = Good(m)
         /\ \A x : Current(x)' = Current(x)
         /\ \A q : Means(q)' = Means(q)
BY DEF Quiet, Good, Current, Means, Meaning

LEMMA QuietTables ==
  ASSUME TablesInOrder, Quiet, tool' \in {Off} \cup Running,
         runs' \in 0..MaxRuns, outcome' \in {"none", "done", "failed"}
  PROVE  TablesInOrder'
<1>1. TypeOK'
  BY DEF TablesInOrder, TypeOK, Quiet
<1>2. MediaInOrder' /\ KeysInOrder'
  BY DEF TablesInOrder, MediaInOrder, KeysInOrder, Quiet
<1>3. CommittedServed'
  BY DEF TablesInOrder, CommittedServed, Committed, Good, Refs, Quiet
<1>4. QED
  BY <1>1, <1>2, <1>3 DEF TablesInOrder

LEMMA RowKept ==
  ASSUME Quiet, NEW x, RowInOrder(x), tool.inserted \subseteq tool'.inserted
  PROVE  RowInOrder(x)'
<1>1. \A m : Promised(m) => Promised(m)'
  BY QuietFrame DEF Promised
<1>2. \A q \in Current(x)' : Means(x.state)' = Means(q)'
  BY QuietFrame DEF RowInOrder
<1>3. /\ digests[x.digest] # None => x.version <= digests[x.digest].version
      /\ ~Serving => Current(x) # {}
      /\ \A m \in Refs(x.state) : Promised(m)
  BY DEF RowInOrder
<1>4. /\ digests'[x.digest] # None => x.version <= digests'[x.digest].version
      /\ ~Serving => Current(x)' # {}
      /\ \A m \in Refs(x.state)' : Promised(m)'
  BY <1>1, <1>3, QuietFrame DEF Quiet, Refs
<1>5. QED
  BY <1>2, <1>4 DEF RowInOrder

(* A row that shows, and stands for, the same as one that is held.          *)
LEMMA SameRow ==
  ASSUME Quiet, NEW x, NEW y, RowInOrder(x), tool.inserted \subseteq tool'.inserted,
         y.table = x.table, y.digest = x.digest, y.version = x.version,
         Means(y.state) = Means(x.state),
         \A m \in Refs(y.state) : m \in Refs(x.state) \/ Promised(m)'
  PROVE  RowInOrder(y)'
<1>1. Current(y)' = Current(x)
  <2>1. Current(y) = Current(x)
    BY DEF Current
  <2>2. QED
    BY <2>1, QuietFrame
<1>2. \A q \in Current(y)' : Means(y.state)' = Means(q)'
  BY <1>1, QuietFrame DEF RowInOrder
<1>3. \A m \in Refs(y.state)' : Promised(m)'
  <2>1. \A m : Promised(m) => Promised(m)'
    BY QuietFrame DEF Promised
  <2>2. \A m \in Refs(x.state) : Promised(m)
    BY DEF RowInOrder
  <2>3. QED
    BY <2>1, <2>2 DEF Refs
<1>4. /\ digests'[y.digest] # None => y.version <= digests'[y.digest].version
      /\ ~Serving => Current(y)' # {}
  BY <1>1 DEF RowInOrder, Quiet
<1>5. QED
  BY <1>2, <1>3, <1>4 DEF RowInOrder

LEMMA ToolStepInv ==
  ASSUME IInv, Quiet, UNCHANGED <<runs, outcome>>, tool # Off, tool' \in Running,
         tool.inserted \subseteq tool'.inserted,
         \A x \in Held' : x \in Held \/ RowInOrder(x)',
         UntouchedAsRead', WrittenInOrder', InsertedInOrder', KnownInOrder',
         tool'.place = None, Staged', DigestsCovered', RevisionsCovered'
  PROVE  IInv'
<1>1. TablesInOrder'
  BY QuietTables DEF IInv, TablesInOrder, TypeOK
<1>2. outcome = "none"
  BY DEF IInv, ToolInOrder
<1>3. NoInlineLeft'
  BY <1>2 DEF NoInlineLeft
<1>4. HeldInOrder'
  <2>1. \A x \in Held : RowInOrder(x)
    BY DEF IInv, ToolInOrder, HeldInOrder
  <2>2. \A x \in Held' : RowInOrder(x)'
    BY <2>1, RowKept
  <2>3. QED
    BY <2>2 DEF HeldInOrder
<1>5. FileInHand'
  BY DEF FileInHand
<1>6. ToolInOrder'
  BY <1>2, <1>4, <1>5 DEF ToolInOrder
<1>7. QED
  BY <1>1, <1>3, <1>6 DEF IInv

(* What the invariant says of a running command.                           *)
LEMMA RunningInv ==
  ASSUME IInv, tool # Off
  PROVE  /\ tool \in Running /\ outcome = "none"
         /\ HeldInOrder /\ UntouchedAsRead /\ WrittenInOrder
         /\ InsertedInOrder /\ KnownInOrder /\ FileInHand
         /\ Staged /\ DigestsCovered /\ RevisionsCovered
BY DEF IInv, TablesInOrder, TypeOK, ToolInOrder

(* Parts that depend on few fields of the command's state.                  *)
LEMMA PartsKept ==
  ASSUME IInv, tool # Off, Quiet
  PROVE  /\ tool'.inserted = tool.inserted => InsertedInOrder'
         /\ tool'.inserted = tool.inserted /\ tool'.known = tool.known => KnownInOrder'
         /\ tool'.written = tool.written => WrittenInOrder'
<1>1. InsertedInOrder /\ KnownInOrder /\ WrittenInOrder
  BY RunningInv
<1>2. tool'.inserted = tool.inserted => InsertedInOrder'
  BY <1>1 DEF InsertedInOrder, Quiet
<1>3. tool'.inserted = tool.inserted /\ tool'.known = tool.known => KnownInOrder'
  BY <1>1, QuietFrame DEF KnownInOrder, Promised, Quiet
<1>4. tool'.written = tool.written => WrittenInOrder'
  BY <1>1 DEF WrittenInOrder, Matches, Quiet
<1>5. QED
  BY <1>2, <1>3, <1>4

(* Between two rows the untouched ones are those still to be taken.         *)
LEMMA UntouchedPending ==
  ASSUME tool' \in Running, tool'.row = None
  PROVE  \A x \in Held' : Untouched(x)' => x \in tool'.pending
<1>1. \A x \in Held' : x # None
  BY RunningFields, StateMigrationAssumption DEF Held
<1>2. QED
  BY <1>1 DEF Untouched

LEMMA StartInv ==
  ASSUME IInv, Start
  PROVE  IInv'
<1>1. /\ tool' = [pc |-> "load", known |-> {}, pending |-> {}, row |-> None,
                  changed |-> FALSE, place |-> None, id |-> None,
                  inserted |-> {}, written |-> {}]
      /\ runs' = runs + 1 /\ runs < MaxRuns /\ outcome' = "none" /\ Quiet
  BY DEF Start, tables, media, Quiet
<1>2. tool' \in Running
  BY <1>1 DEF Running
<1>3. TablesInOrder'
  <2>1. runs' \in 0..MaxRuns
    BY <1>1, StateMigrationAssumption DEF IInv, TablesInOrder, TypeOK
  <2>2. QED
    BY <1>1, <1>2, <2>1, QuietTables DEF IInv
<1>4. NoInlineLeft'
  BY <1>1 DEF NoInlineLeft
<1>5. Held' = {}
  BY <1>1 DEF Held
<1>6. /\ HeldInOrder' /\ UntouchedAsRead' /\ WrittenInOrder' /\ InsertedInOrder'
      /\ KnownInOrder' /\ FileInHand' /\ Staged' /\ DigestsCovered' /\ RevisionsCovered'
  BY <1>1, <1>5 DEF HeldInOrder, UntouchedAsRead, WrittenInOrder, InsertedInOrder,
     KnownInOrder, FileInHand, Staged, DigestsCovered, RevisionsCovered
<1>7. ToolInOrder'
  BY <1>1, <1>6 DEF ToolInOrder
<1>8. QED
  BY <1>3, <1>4, <1>7 DEF IInv

LEMMA LoadInv ==
  ASSUME IInv, LoadExistingMedia
  PROVE  IInv'
<1>1. /\ tool' = [tool EXCEPT !.known = KnownMedia, !.pc = "readDigests"]
      /\ tool.pc = "load" /\ Quiet /\ UNCHANGED <<runs, outcome>>
  BY DEF LoadExistingMedia, tables, media, Quiet
<1>2. tool # Off
  BY <1>1 DEF Off
<1>3. tool \in Running /\ tool.pending = {} /\ tool.row = None /\ tool.place = None
  BY <1>1, <1>2, RunningInv DEF Staged, FileInHand
<1>4. \A x \in KnownMedia :
        /\ x \in Ref /\ minted[x.id] # None /\ files[x.id] \in {None, x.content}
        /\ files[x.id] # None => Good(x.id)
  <2>1. ASSUME NEW m \in MediaIds, rows[m] # None
        PROVE  /\ rows[m].content \in Contents /\ minted[m] # None
               /\ files[m] \in {None, rows[m].content}
               /\ files[m] # None => Good(m)
    <3>1. rows[m] \in MediaRow
      BY <2>1 DEF IInv, TablesInOrder, TypeOK
    <3>2. minted[m] = rows[m].owner /\ files[m] \in {None, rows[m].content}
      BY <2>1 DEF IInv, TablesInOrder, MediaInOrder
    <3>3. rows[m].content \in Contents /\ rows[m].owner # None
      BY <3>1, StateMigrationAssumption DEF MediaRow
    <3>4. QED
      BY <2>1, <3>2, <3>3 DEF Good
  <2>2. QED
    BY <2>1 DEF KnownMedia, Ref
<1>5. /\ tool' \in Running /\ tool'.known = KnownMedia /\ tool'.pc = "readDigests"
      /\ tool'.pending = {} /\ tool'.row = None /\ tool'.place = None
      /\ tool'.inserted = tool.inserted /\ tool'.written = tool.written
  <2>1. KnownMedia \subseteq Ref
    BY <1>4
  <2>2. QED
    BY <1>1, <1>3, <2>1 DEF Running
<1>6. Held' = Held
  BY <1>3, <1>5 DEF Held
<1>7. KnownInOrder'
  BY <1>1, <1>4, <1>5, QuietFrame DEF KnownInOrder, Promised, Quiet
<1>8. UntouchedAsRead' /\ Staged' /\ DigestsCovered' /\ RevisionsCovered'
  BY <1>5, UntouchedPending DEF UntouchedAsRead, Staged, DigestsCovered, RevisionsCovered
<1>9. QED
  BY <1>1, <1>2, <1>5, <1>6, <1>7, <1>8, PartsKept, ToolStepInv

(* A row as a SELECT has just read it.                                     *)
LEMMA ReadRow ==
  ASSUME IInv, Quiet, NEW x, x.state \in Committed, Current(x) = {x.state},
         digests[x.digest] # None => x.version <= digests[x.digest].version
  PROVE  RowInOrder(x)' /\ Current(x)' = {x.state}
<1>1. \A m \in Refs(x.state) : Good(m)
  BY DEF IInv, TablesInOrder, CommittedServed
<1>2. \A m \in Refs(x.state)' : Promised(m)'
  BY <1>1, QuietFrame DEF Promised, Refs
<1>3. Current(x)' = {x.state}
  BY QuietFrame
<1>4. QED
  BY <1>2, <1>3 DEF RowInOrder, Quiet

LEMMA ReadDigestsInv ==
  ASSUME IInv, ReadDigests
  PROVE  IInv'
<1>1. /\ tool' = [tool EXCEPT !.pending = DigestRows, !.pc = "digests"]
      /\ tool.pc = "readDigests" /\ Quiet /\ UNCHANGED <<runs, outcome>>
  BY DEF ReadDigests, tables, media, Quiet
<1>2. tool # Off
  BY <1>1 DEF Off
<1>3. tool \in Running /\ tool.row = None /\ tool.place = None
  BY <1>1, <1>2, RunningInv DEF Staged, FileInHand
<1>4. ASSUME NEW x \in DigestRows
      PROVE  /\ x \in Row /\ x.table = "digests"
             /\ x.state \in Committed /\ Current(x) = {x.state}
             /\ digests[x.digest] # None => x.version <= digests[x.digest].version
  <2>1. PICK d \in DigestIds :
          /\ digests[d] # None
          /\ x = [table |-> "digests", digest |-> d, version |-> digests[d].version,
                  owner |-> digests[d].owner, state |-> digests[d].state]
    BY DEF DigestRows
  <2>2. digests[d] \in Digest
    BY <2>1 DEF IInv, TablesInOrder, TypeOK
  <2>3. x \in Row /\ x.version <= digests[d].version
    BY <2>1, <2>2 DEF Row, Digest
  <2>4. Current(x) = {x.state} /\ x.state \in Committed
    BY <2>1 DEF Current, Committed
  <2>5. QED
    BY <2>1, <2>3, <2>4
<1>5. /\ tool' \in Running /\ tool'.pending = DigestRows /\ tool'.pc = "digests"
      /\ tool'.row = None /\ tool'.place = None /\ tool'.known = tool.known
      /\ tool'.inserted = tool.inserted /\ tool'.written = tool.written
  <2>1. DigestRows \subseteq Row
    BY <1>4
  <2>2. QED
    BY <1>1, <1>3, <2>1 DEF Running
<1>6. \A x \in Held' : x \in Held \/ x \in DigestRows
  BY <1>5 DEF Held
<1>7. \A x \in DigestRows : RowInOrder(x)' /\ Current(x)' = {x.state}
  BY <1>1, <1>4, ReadRow
<1>8. UntouchedAsRead'
  <2>1. \A x \in Held' : Untouched(x)' => x \in DigestRows
    BY <1>5, UntouchedPending
  <2>2. QED
    BY <1>7, <2>1 DEF UntouchedAsRead
<1>9. Staged' /\ RevisionsCovered'
  BY <1>4, <1>5 DEF Staged, RevisionsCovered
<1>10. DigestsCovered'
  <2>1. ASSUME NEW d \in DigestIds, digests[d] # None, Matches(digests[d].state) # {}
        PROVE  \E x \in DigestRows : /\ x.table = "digests" /\ x.digest = d
                                     /\ x.version = digests[d].version
    <3> DEFINE x == [table |-> "digests", digest |-> d, version |-> digests[d].version,
                     owner |-> digests[d].owner, state |-> digests[d].state]
    <3>1. x \in DigestRows
      BY <2>1 DEF DigestRows, HasDataURL
    <3>2. QED
      BY <3>1
  <2>2. DigestRows \subseteq Held'
    BY <1>5 DEF Held
  <2>3. QED
    BY <1>1, <2>1, <2>2 DEF DigestsCovered, Quiet, Matches
<1>11. QED
  BY <1>1, <1>2, <1>5, <1>6, <1>7, <1>8, <1>9, <1>10, PartsKept, ToolStepInv

LEMMA ReadRevisionsInv ==
  ASSUME IInv, ReadRevisions
  PROVE  IInv'
<1>1. /\ tool' = [tool EXCEPT !.pending = RevisionRows, !.pc = "revisions"]
      /\ tool.pc = "readRevisions" /\ Quiet /\ UNCHANGED <<runs, outcome>>
  BY DEF ReadRevisions, tables, media, Quiet
<1>2. tool # Off
  BY <1>1 DEF Off
<1>3. /\ tool \in Running /\ tool.row = None /\ tool.place = None /\ tool.pending = {}
      /\ DigestsCovered
  BY <1>1, <1>2, RunningInv DEF Staged, FileInHand
<1>4. ASSUME NEW x \in RevisionRows
      PROVE  /\ x \in Row /\ x.table = "revisions"
             /\ x.state \in Committed /\ Current(x) = {x.state}
             /\ digests[x.digest] # None => x.version <= digests[x.digest].version
  <2>1. PICK y \in revisions :
          x = [table |-> "revisions", digest |-> y.digest, version |-> y.version,
               owner |-> digests[y.digest].owner, state |-> y.state]
    BY DEF RevisionRows
  <2>2. y \in Revision /\ digests[y.digest] # None /\ y.version <= digests[y.digest].version
    BY DEF IInv, TablesInOrder, TypeOK, KeysInOrder
  <2>3. y.digest \in DigestIds /\ digests[y.digest] \in Digest
    BY <2>2 DEF IInv, TablesInOrder, TypeOK, Revision
  <2>4. x \in Row
    BY <2>1, <2>2, <2>3 DEF Row, Digest, Revision
  <2>5. Current(x) = {x.state}
    <3>1. {z \in revisions : z.digest = x.digest /\ z.version = x.version} = {y}
      BY <2>1 DEF IInv, TablesInOrder, KeysInOrder
    <3>2. QED
      BY <2>1, <3>1 DEF Current
  <2>6. x.state \in Committed
    BY <2>1 DEF Committed
  <2>7. QED
    BY <2>1, <2>2, <2>4, <2>5, <2>6
<1>5. /\ tool' \in Running /\ tool'.pending = RevisionRows /\ tool'.pc = "revisions"
      /\ tool'.row = None /\ tool'.place = None /\ tool'.known = tool.known
      /\ tool'.inserted = tool.inserted /\ tool'.written = tool.written
  <2>1. RevisionRows \subseteq Row
    BY <1>4
  <2>2. QED
    BY <1>1, <1>3, <2>1 DEF Running
<1>6. \A x \in Held' : x \in Held \/ x \in RevisionRows
  BY <1>5 DEF Held
<1>7. \A x \in RevisionRows : RowInOrder(x)' /\ Current(x)' = {x.state}
  BY <1>1, <1>4, ReadRow
<1>8. UntouchedAsRead'
  <2>1. \A x \in Held' : Untouched(x)' => x \in RevisionRows
    BY <1>5, UntouchedPending
  <2>2. QED
    BY <1>7, <2>1 DEF UntouchedAsRead
<1>9. Staged'
  BY <1>4, <1>5 DEF Staged
<1>10. DigestsCovered'
  <2>1. Held \subseteq Held'
    BY <1>3, <1>5 DEF Held
  <2>2. QED
    BY <1>1, <1>3, <1>5, <2>1 DEF DigestsCovered, Quiet, Matches
<1>11. RevisionsCovered'
  <2>1. ASSUME NEW y \in revisions, Matches(y.state) # {}
        PROVE  \E x \in RevisionRows : /\ x.table = "revisions" /\ x.digest = y.digest
                                       /\ x.version = y.version
    <3> DEFINE x == [table |-> "revisions", digest |-> y.digest, version |-> y.version,
                     owner |-> digests[y.digest].owner, state |-> y.state]
    <3>1. x \in RevisionRows
      BY <2>1 DEF RevisionRows, HasDataURL
    <3>2. QED
      BY <3>1
  <2>2. RevisionRows \subseteq Held'
    BY <1>5 DEF Held
  <2>3. QED
    BY <1>1, <2>1, <2>2 DEF RevisionsCovered, Quiet, Matches
<1>12. QED
  BY <1>1, <1>2, <1>5, <1>6, <1>7, <1>8, <1>9, <1>10, <1>11, PartsKept, ToolStepInv

LEMMA TakeRowInv ==
  ASSUME IInv, TakeRow
  PROVE  IInv'
<1>1. PICK x \in tool.pending :
        tool' = [tool EXCEPT !.pending = @ \ {x}, !.row = x, !.changed = FALSE]
  BY DEF TakeRow
<1>2. /\ tool.pc \in {"digests", "revisions"} /\ tool.row = None
      /\ Quiet /\ UNCHANGED <<runs, outcome>>
  BY DEF TakeRow, tables, media, Quiet
<1>3. tool # Off
  BY <1>2 DEF Off
<1>4. /\ tool \in Running /\ tool.place = None /\ UntouchedAsRead /\ Staged
      /\ DigestsCovered /\ RevisionsCovered
  BY <1>2, <1>3, RunningInv DEF FileInHand
<1>5. x \in Row /\ x # None
  BY <1>4, RunningFields, StateMigrationAssumption
<1>6. /\ tool' \in Running /\ tool'.pending = tool.pending \ {x} /\ tool'.row = x
      /\ tool'.pc = tool.pc /\ tool'.place = None /\ tool'.known = tool.known
      /\ tool'.inserted = tool.inserted /\ tool'.written = tool.written
  BY <1>1, <1>4, <1>5 DEF Running
<1>7. Held' = Held
  BY <1>2, <1>5, <1>6 DEF Held
<1>8. UntouchedAsRead'
  <2>1. \A y \in Held' : Untouched(y)' => Untouched(y)
    BY <1>6 DEF Untouched
  <2>2. QED
    BY <1>2, <1>4, <1>7, <2>1, QuietFrame DEF UntouchedAsRead
<1>9. Staged'
  BY <1>2, <1>4, <1>6 DEF Staged
<1>10. DigestsCovered' /\ RevisionsCovered'
  BY <1>2, <1>4, <1>6, <1>7 DEF DigestsCovered, RevisionsCovered, Quiet, Matches
<1>11. QED
  BY <1>2, <1>3, <1>6, <1>7, <1>8, <1>9, <1>10, PartsKept, ToolStepInv

LEMMA EndLoopInv ==
  ASSUME IInv, EndLoop
  PROVE  IInv'
<1>1. /\ tool' = [tool EXCEPT !.pc = IF @ = "digests" THEN "readRevisions" ELSE "commit"]
      /\ tool.pc \in {"digests", "revisions"} /\ tool.row = None /\ tool.pending = {}
      /\ Quiet /\ UNCHANGED <<runs, outcome>>
  BY DEF EndLoop, tables, media, Quiet
<1>2. tool # Off
  BY <1>1 DEF Off
<1>3. /\ tool \in Running /\ tool.place = None /\ DigestsCovered /\ RevisionsCovered
  BY <1>1, <1>2, RunningInv DEF FileInHand
<1>4. /\ tool' \in Running /\ tool'.pending = {} /\ tool'.row = None
      /\ tool'.pc = IF tool.pc = "digests" THEN "readRevisions" ELSE "commit"
      /\ tool'.place = None /\ tool'.known = tool.known
      /\ tool'.inserted = tool.inserted /\ tool'.written = tool.written
  BY <1>1, <1>3 DEF Running
<1>5. Held' = Held
  BY <1>1, <1>4 DEF Held
<1>6. UntouchedAsRead' /\ Staged'
  BY <1>4, UntouchedPending DEF UntouchedAsRead, Staged
<1>7. DigestsCovered' /\ RevisionsCovered'
  BY <1>1, <1>3, <1>4, <1>5 DEF DigestsCovered, RevisionsCovered, Quiet, Matches
<1>8. QED
  BY <1>1, <1>2, <1>4, <1>5, <1>6, <1>7, PartsKept, ToolStepInv

(* The row in hand with one image replaced stands for the same row.        *)
LEMMA ReplaceInHand ==
  ASSUME IInv, tool # Off, Quiet, NEW p \in Places, NEW m \in MediaIds,
         tool.row # None, tool.row.state.images[p].form = "inline",
         files[m] = tool.row.state.images[p].content,
         tool' \in Running, tool.inserted \subseteq tool'.inserted, Promised(m)',
         tool'.row = ReplacedBy(p, m), tool'.changed,
         tool'.pc = tool.pc, tool'.pending = tool.pending, tool'.written = tool.written
  PROVE  /\ \A x \in Held' : x \in Held \/ RowInOrder(x)'
         /\ UntouchedAsRead' /\ Staged' /\ DigestsCovered' /\ RevisionsCovered'
<1> DEFINE old == tool.row
           new == tool'.row
<1>1. /\ HeldInOrder /\ UntouchedAsRead /\ Staged /\ DigestsCovered /\ RevisionsCovered
      /\ old \in Row /\ old \in Held /\ RowInOrder(old)
  BY RunningInv, RunningFields DEF Held, HeldInOrder
<1>2. new = Replaced(old, p, m)
  BY DEF ReplacedBy, Replaced
<1>3. /\ new \in Row /\ new.table = old.table /\ new.digest = old.digest
      /\ new.version = old.version /\ Means(new.state) = Means(old.state)
      /\ Refs(new.state) \subseteq Refs(old.state) \cup {m}
  <2>1. PICK x, y : x = old /\ y = new
    OBVIOUS
  <2>2. /\ x \in Row /\ x.state.images[p].form = "inline"
        /\ files[m] = x.state.images[p].content /\ y = Replaced(x, p, m)
    BY <1>1, <1>2, <2>1
  <2>3. /\ y \in Row /\ y.table = x.table /\ y.digest = x.digest
        /\ y.version = x.version /\ Means(y.state) = Means(x.state)
        /\ Refs(y.state) \subseteq Refs(x.state) \cup {m}
    BY <2>2, ReplaceShows
  <2>4. QED
    BY <2>1, <2>3
<1>4. new # None
  BY <1>3, StateMigrationAssumption
<1>5. /\ Held' = tool.pending \cup tool.written \cup {new}
      /\ Held = tool.pending \cup tool.written \cup {old}
  BY <1>4 DEF Held
<1>6. \A x : x = new => RowInOrder(x)'
  <2>1. ASSUME NEW x, x = new PROVE RowInOrder(x)'
    <3>1. PICK y : y = old
      OBVIOUS
    <3>2. /\ RowInOrder(y) /\ x.table = y.table /\ x.digest = y.digest
          /\ x.version = y.version /\ Means(x.state) = Means(y.state)
          /\ \A n \in Refs(x.state) : n \in Refs(y.state) \/ Promised(n)'
      BY <1>1, <1>3, <2>1, <3>1
    <3>3. QED
      BY <3>2, SameRow
  <2>2. QED
    BY <2>1
<1>7. \A x \in Held' : x \in Held \/ RowInOrder(x)'
  BY <1>5, <1>6
<1>8. UntouchedAsRead'
  <2>1. \A x : Untouched(x)' => x \in tool.pending
    BY DEF Untouched
  <2>2. \A x \in tool.pending : Current(x) \subseteq {x.state}
    BY <1>1 DEF UntouchedAsRead, Untouched, Held
  <2>3. QED
    BY <2>1, <2>2, QuietFrame DEF UntouchedAsRead
<1>9. Staged'
  BY <1>1, <1>3, <1>4 DEF Staged, Held
<1>10. DigestsCovered' /\ RevisionsCovered'
  <2> HIDE DEF old, new
  <2>1. \A x \in Held : \E y \in Held' :
          y.table = x.table /\ y.digest = x.digest /\ y.version = x.version
    BY <1>3, <1>5
  <2>2. DigestsCovered'
    BY <1>1, <2>1 DEF DigestsCovered, Quiet, Matches
  <2>3. RevisionsCovered'
    BY <1>1, <2>1 DEF RevisionsCovered, Quiet, Matches
  <2>4. QED
    BY <2>2, <2>3
<1>11. QED
  BY <1>7, <1>8, <1>9, <1>10

LEMMA ReuseMediaInv ==
  ASSUME IInv, NEW p \in Places, ReuseMedia(p)
  PROVE  IInv'
<1>1. PICK x \in Usable(tool.row.state.images[p].content) :
        tool' = [tool EXCEPT !.row = ReplacedBy(p, x.id), !.changed = TRUE]
  BY DEF ReuseMedia
<1>2. /\ tool.pc \in {"digests", "revisions"} /\ tool.row # None /\ tool.place = None
      /\ tool.row.state.images[p].form = "inline"
      /\ Quiet /\ UNCHANGED <<runs, outcome>>
  BY DEF ReuseMedia, AtImage, tables, media, Quiet
<1>3. tool # Off
  BY <1>2 DEF Off
<1>4. /\ tool \in Running /\ KnownInOrder /\ tool.row \in Row
  BY <1>2, <1>3, RunningInv, RunningFields
<1>5. /\ x \in tool.known /\ x.id \in MediaIds
      /\ files[x.id] = tool.row.state.images[p].content /\ Promised(x.id)
  <2>1. x \in tool.known /\ x.content = tool.row.state.images[p].content /\ files[x.id] # None
    BY DEF Usable
  <2>2. QED
    BY <1>4, <2>1, RunningFields DEF KnownInOrder, Ref
<1>6. ReplacedBy(p, x.id) \in Row
  BY <1>2, <1>4, <1>5, ReplaceShows DEF ReplacedBy, Replaced
<1>7. /\ tool' \in Running /\ tool'.row = ReplacedBy(p, x.id) /\ tool'.changed
      /\ tool'.pc = tool.pc /\ tool'.pending = tool.pending /\ tool'.place = None
      /\ tool'.known = tool.known
      /\ tool'.inserted = tool.inserted /\ tool'.written = tool.written
  BY <1>1, <1>2, <1>4, <1>6 DEF Running
<1>8. Promised(x.id)'
  <2>1. \A m : Promised(m) => Promised(m)'
    BY <1>2, <1>7, QuietFrame DEF Promised
  <2>2. QED
    BY <1>5, <2>1
<1>9. /\ \A y \in Held' : y \in Held \/ RowInOrder(y)'
      /\ UntouchedAsRead' /\ Staged' /\ DigestsCovered' /\ RevisionsCovered'
  BY <1>2, <1>3, <1>5, <1>7, <1>8, ReplaceInHand
<1>10. QED
  BY <1>2, <1>3, <1>7, <1>9, PartsKept, ToolStepInv

LEMMA InsertMediaInv ==
  ASSUME IInv, InsertMedia
  PROVE  IInv'
<1> DEFINE p == tool.place
           m == tool.id
           content == tool.row.state.images[p].content
           made == [id |-> m, owner |-> tool.row.owner, content |-> content]
           ref == [id |-> m, content |-> content]
<1>1. /\ tool' = [tool EXCEPT !.row = ReplacedBy(p, m), !.changed = TRUE,
                  !.place = None, !.id = None,
                  !.inserted = @ \cup {made}, !.known = @ \cup {ref}]
      /\ tool.pc \in {"digests", "revisions"} /\ p # None /\ tool.row.owner \in users
      /\ Quiet /\ UNCHANGED <<runs, outcome>>
  BY DEF InsertMedia, tables, media, Quiet
<1>2. tool # Off
  BY <1>1 DEF Off
<1>3. /\ tool \in Running /\ WrittenInOrder /\ InsertedInOrder /\ KnownInOrder
      /\ tool.row # None /\ m # None
      /\ tool.row.state.images[p].form = "inline"
      /\ files[m] = content /\ minted[m] = tool.row.owner
  BY <1>1, <1>2, RunningInv DEF FileInHand
<1>4. tool.row \in Row /\ p \in Places /\ m \in MediaIds
  BY <1>1, <1>3, RunningFields
<1>5. content \in Contents /\ tool.row.owner \in Users /\ minted[m] # None
  <2>1. tool.row.owner \in Users /\ tool.row.state \in State
    BY <1>4 DEF Row
  <2>2. QED
    BY <1>3, <1>4, <2>1, StateFields, ImageForms, StateMigrationAssumption
<1>6. ReplacedBy(p, m) \in Row
  BY <1>3, <1>4, ReplaceShows DEF ReplacedBy, Replaced
<1>7. /\ tool' \in Running /\ tool'.row = ReplacedBy(p, m) /\ tool'.changed
      /\ tool'.pc = tool.pc /\ tool'.pending = tool.pending /\ tool'.place = None
      /\ tool'.known = tool.known \cup {ref}
      /\ tool'.inserted = tool.inserted \cup {made} /\ tool'.written = tool.written
  <2>1. made \in [id : MediaIds, owner : Users, content : Contents] /\ ref \in Ref
    BY <1>4, <1>5 DEF Ref
  <2> HIDE DEF p, m, made, ref
  <2>2. QED
    BY <1>1, <1>3, <1>6, <2>1 DEF Running
<1>8. \A n : Promised(n) => Promised(n)'
  BY <1>1, <1>7, QuietFrame DEF Promised
<1>9. \A n : n = m => Promised(n)'
  <2>1. made \in tool'.inserted /\ made.id = m
    BY <1>7
  <2>2. QED
    BY <2>1 DEF Promised
<1>10. InsertedInOrder'
  BY <1>1, <1>3, <1>7 DEF InsertedInOrder, Quiet
<1>11. KnownInOrder'
  BY <1>1, <1>3, <1>5, <1>7, <1>8, <1>9 DEF KnownInOrder, Quiet
<1>12. /\ \A y \in Held' : y \in Held \/ RowInOrder(y)'
       /\ UntouchedAsRead' /\ Staged' /\ DigestsCovered' /\ RevisionsCovered'
  <2>1. PICK q, n : q = p /\ n = m
    OBVIOUS
  <2>2. q \in Places /\ n \in MediaIds /\ Promised(n)' /\ tool'.row = ReplacedBy(q, n)
        /\ tool.row.state.images[q].form = "inline"
        /\ files[n] = tool.row.state.images[q].content
    BY <1>3, <1>4, <1>7, <1>9, <2>1
  <2>3. QED
    BY <1>1, <1>2, <1>3, <1>7, <2>2, ReplaceInHand
<1>13. QED
  BY <1>1, <1>2, <1>7, <1>10, <1>11, <1>12, PartsKept, ToolStepInv

(* A row without images to replace has no file in hand.                    *)
LEMMA NothingInHand ==
  ASSUME IInv, tool # Off, tool.row # None, Matches(tool.row.state) = {}
  PROVE  tool.place = None
<1>1. SUFFICES ASSUME tool.place # None PROVE FALSE
  OBVIOUS
<1>2. tool.place \in Places /\ tool.row.state.images[tool.place].form = "inline"
  BY <1>1, RunningInv, RunningFields DEF FileInHand
<1>3. QED
  BY <1>2 DEF Matches

(* Putting a row away, written or not.                                     *)
LEMMA PutAway ==
  ASSUME IInv, tool # Off, Quiet, tool' \in Running, tool'.row = None,
         tool'.pc = tool.pc, tool'.pending = tool.pending,
         \A x \in tool'.written : x \in tool.written \/ x = tool.row,
         tool.written \subseteq tool'.written, tool.pc \in {"digests", "revisions"},
         tool.row \in Row,
         \A q \in Current(tool.row) : Matches(q) # {} => tool.row \in tool'.written
  PROVE  /\ \A x \in Held' : x \in Held
         /\ UntouchedAsRead' /\ Staged' /\ DigestsCovered' /\ RevisionsCovered'
<1>1. /\ UntouchedAsRead /\ Staged /\ DigestsCovered /\ RevisionsCovered
  BY RunningInv
<1>2. tool.row # None
  BY StateMigrationAssumption
<1>3. \A x \in Held' : x \in Held
  BY <1>2 DEF Held
<1>4. UntouchedAsRead'
  <2>1. \A x \in Held' : Untouched(x)' => Untouched(x)
    BY UntouchedPending DEF Untouched
  <2>2. QED
    BY <1>1, <1>3, <2>1, QuietFrame DEF UntouchedAsRead
<1>5. Staged'
  BY <1>1 DEF Staged
<1>6. \A x \in Held : x = tool.row \/ x \in Held'
  BY DEF Held
<1>7. tool.row \in tool'.written => tool.row \in Held'
  BY DEF Held
<1>8. DigestsCovered'
  <2>1. ASSUME NEW d \in DigestIds, digests[d] # None, Matches(digests[d].state) # {}
        PROVE  \E x \in Held' : /\ x.table = "digests" /\ x.digest = d
                                /\ x.version = digests[d].version
    <3>1. PICK x \in Held : /\ x.table = "digests" /\ x.digest = d
                           /\ x.version = digests[d].version
      BY <1>1, <2>1 DEF DigestsCovered
    <3>2. digests[d].state \in Current(x)
      BY <2>1, <3>1 DEF Current
    <3>3. x \in Held'
      BY <1>6, <1>7, <2>1, <3>2
    <3>4. QED
      BY <3>1, <3>3
  <2>2. QED
    BY <2>1 DEF DigestsCovered, Quiet, Matches
<1>9. RevisionsCovered'
  <2>1. ASSUME NEW y \in revisions, Matches(y.state) # {}, tool.pc = "revisions"
        PROVE  \E x \in Held' : /\ x.table = "revisions" /\ x.digest = y.digest
                                /\ x.version = y.version
    <3>1. PICK x \in Held : /\ x.table = "revisions" /\ x.digest = y.digest
                           /\ x.version = y.version
      BY <1>1, <2>1 DEF RevisionsCovered
    <3>2. y.state \in Current(x)
      BY <2>1, <3>1 DEF Current
    <3>3. x \in Held'
      BY <1>6, <1>7, <2>1, <3>2
    <3>4. QED
      BY <3>1, <3>3
  <2>2. QED
    BY <2>1 DEF RevisionsCovered, Quiet, Matches
<1>10. QED
  BY <1>3, <1>4, <1>5, <1>8, <1>9

LEMMA UpdateRowInv ==
  ASSUME IInv, UpdateRow
  PROVE  IInv'
<1>1. /\ tool' = [tool EXCEPT !.row = None,
                  !.written = @ \cup {x \in {tool.row} : StillThere(x)}]
      /\ tool.pc \in {"digests", "revisions"} /\ tool.row # None
      /\ Matches(tool.row.state) = {}
      /\ Quiet /\ UNCHANGED <<runs, outcome>>
  BY DEF UpdateRow, tables, media, Quiet
<1>2. tool # Off
  BY <1>1 DEF Off
<1>3. /\ tool \in Running /\ tool.place = None /\ WrittenInOrder /\ tool.row \in Row
  BY <1>1, <1>2, RunningInv, RunningFields, NothingInHand
<1>4. /\ tool' \in Running /\ tool'.row = None /\ tool'.pc = tool.pc
      /\ tool'.pending = tool.pending /\ tool'.place = None /\ tool'.known = tool.known
      /\ tool'.inserted = tool.inserted
      /\ tool'.written = tool.written \cup {x \in {tool.row} : StillThere(x)}
  BY <1>1, <1>3 DEF Running
<1>5. StillThere(tool.row) => digests[tool.row.digest] # None
  BY <1>3 DEF StillThere, IInv, TablesInOrder, KeysInOrder
<1>6. WrittenInOrder'
  BY <1>1, <1>3, <1>4, <1>5 DEF WrittenInOrder, Quiet, Matches
<1>7. \A q \in Current(tool.row) : tool.row \in tool'.written
  <2>1. Current(tool.row) # {} => StillThere(tool.row)
    BY <1>3 DEF Current, StillThere
  <2>2. QED
    BY <1>4, <2>1
<1>8. /\ \A x \in Held' : x \in Held
      /\ UntouchedAsRead' /\ Staged' /\ DigestsCovered' /\ RevisionsCovered'
  BY <1>1, <1>2, <1>3, <1>4, <1>7, PutAway
<1>9. QED
  BY <1>1, <1>2, <1>4, <1>6, <1>8, PartsKept, ToolStepInv

LEMMA LeaveRowInv ==
  ASSUME IInv, LeaveRow
  PROVE  IInv'
<1>1. /\ tool' = [tool EXCEPT !.row = None]
      /\ tool.pc \in {"digests", "revisions"} /\ tool.row # None
      /\ Matches(tool.row.state) = {} /\ ~tool.changed
      /\ Quiet /\ UNCHANGED <<runs, outcome>>
  BY DEF LeaveRow, tables, media, Quiet
<1>2. tool # Off
  BY <1>1 DEF Off
<1>3. /\ tool \in Running /\ tool.place = None /\ UntouchedAsRead /\ tool.row \in Row
  BY <1>1, <1>2, RunningInv, RunningFields, NothingInHand
<1>4. /\ tool' \in Running /\ tool'.row = None /\ tool'.pc = tool.pc
      /\ tool'.pending = tool.pending /\ tool'.place = None /\ tool'.known = tool.known
      /\ tool'.inserted = tool.inserted /\ tool'.written = tool.written
  BY <1>1, <1>3 DEF Running
<1>5. Current(tool.row) \subseteq {tool.row.state}
  BY <1>1, <1>3 DEF UntouchedAsRead, Untouched, Held
<1>6. \A q \in Current(tool.row) : Matches(q) = {}
  BY <1>1, <1>5
<1>7. /\ \A x \in Held' : x \in Held
      /\ UntouchedAsRead' /\ Staged' /\ DigestsCovered' /\ RevisionsCovered'
  BY <1>1, <1>2, <1>3, <1>4, <1>6, PutAway
<1>8. QED
  BY <1>1, <1>2, <1>4, <1>7, PartsKept, ToolStepInv

(***************************************************************************)
(* Steps that make media, or take a user's away: what has an id stays as   *)
(* it is, but for rows of users that go.                                   *)
(***************************************************************************)
MediaKept ==
  /\ users' \subseteq users
  /\ \A m \in MediaIds : minted[m] # None =>
       /\ minted'[m] = minted[m] /\ files'[m] = files[m]
       /\ rows'[m] = rows[m] \/ minted[m] \notin users'

LEMMA GoodKept ==
  ASSUME MediaKept, NEW m \in MediaIds, Good(m)
  PROVE  Good(m)'
BY DEF MediaKept, Good

LEMMA ServedShows ==
  ASSUME MediaKept, NEW s \in State, \A m \in Refs(s) : minted[m] # None
  PROVE  Means(s)' = Means(s)
<1>1. \A m \in Refs(s) : files'[m] = files[m]
  BY DEF MediaKept, Refs
<1>2. QED
  BY <1>1, ShownKept

LEMMA CommittedKept ==
  ASSUME TablesInOrder, MediaKept, NEW s \in Committed
  PROVE  /\ s \in State /\ Means(s)' = Means(s)
         /\ \A m \in Refs(s) : Good(m) /\ Good(m)'
<1>1. s \in State /\ \A m \in Refs(s) : m \in MediaIds /\ Good(m)
  BY CommittedAreStates DEF TablesInOrder, CommittedServed, Refs
<1>2. \A m \in Refs(s) : Good(m)' /\ minted[m] # None
  BY <1>1, GoodKept DEF Good
<1>3. QED
  BY <1>1, <1>2, ServedShows

SameTool ==
  /\ tool'.pc = tool.pc /\ tool'.known = tool.known /\ tool'.pending = tool.pending
  /\ tool'.row = tool.row /\ tool'.changed = tool.changed
  /\ tool'.inserted = tool.inserted /\ tool'.written = tool.written

(* Whatever is promised has been made.                                     *)
LEMMA PromisedIsMade ==
  ASSUME IInv, tool # Off, NEW m \in MediaIds, Promised(m)
  PROVE  minted[m] # None
<1>1. ASSUME NEW x \in tool.inserted, x.id = m PROVE minted[m] # None
  <2>1. minted[m] = x.owner /\ x.owner \in users
    BY <1>1, RunningInv DEF InsertedInOrder
  <2>2. users \subseteq Users
    BY DEF IInv, TablesInOrder, TypeOK
  <2>3. QED
    BY <2>1, <2>2, StateMigrationAssumption
<1>2. QED
  BY <1>1 DEF Promised, Good

LEMMA ToolKept ==
  ASSUME IInv, tool # Off, MediaKept, SameTool,
         \A x \in tool.inserted : x.owner \in users',
         \A x \in Held :
           /\ Current(x)' \subseteq Current(x)
           /\ ~Serving => Current(x)' = Current(x)
           /\ digests'[x.digest] # None => x.version <= digests'[x.digest].version,
         \A x \in tool.written : digests'[x.digest] # None
  PROVE  /\ HeldInOrder' /\ UntouchedAsRead' /\ WrittenInOrder' /\ InsertedInOrder'
         /\ KnownInOrder' /\ Staged' /\ Held' = Held
         /\ \A x \in Held : Means(x.state)' = Means(x.state)
<1>1. /\ tool \in Running /\ HeldInOrder /\ UntouchedAsRead /\ WrittenInOrder
      /\ InsertedInOrder /\ KnownInOrder /\ Staged /\ TablesInOrder
  BY RunningInv DEF IInv
<1>2. Held' = Held
  BY DEF SameTool, Held
<1>3. \A m \in MediaIds : Promised(m) => Promised(m)' /\ minted[m] # None
  BY GoodKept, PromisedIsMade DEF Promised, SameTool
<1>4. ASSUME NEW x \in Held
      PROVE  Means(x.state)' = Means(x.state) /\ \A m \in Refs(x.state) : Promised(m)'
  <2>1. x \in Row /\ x.state \in State
    BY HeldAreRows, <1>1 DEF TablesInOrder
  <2>2. \A m \in Refs(x.state) : m \in MediaIds /\ Promised(m)
    BY <1>1 DEF HeldInOrder, RowInOrder, Refs
  <2>3. \A m \in Refs(x.state) : minted[m] # None /\ Promised(m)'
    BY <1>3, <2>2
  <2>4. QED
    BY <2>1, <2>3, ServedShows
<1>5. HeldInOrder'
  <2>1. ASSUME NEW x \in Held PROVE RowInOrder(x)'
    <3>1. \A q \in Current(x) : Means(q)' = Means(q)
      <4>1. x \in Row
        BY HeldAreRows, <1>1 DEF TablesInOrder
      <4>2. Current(x) \subseteq Committed
        BY <4>1 DEF Current, Committed
      <4>3. QED
        BY <1>1, <4>2, CommittedKept
    <3>2. \A q \in Current(x) : Means(x.state) = Means(q)
      BY <1>1 DEF HeldInOrder, RowInOrder
    <3>3. \A q \in Current(x)' : Means(x.state)' = Means(q)'
      BY <1>4, <3>1, <3>2
    <3>4. ~Serving => Current(x)' # {}
      BY <1>1 DEF HeldInOrder, RowInOrder
    <3>5. \A m \in Refs(x.state)' : Promised(m)'
      BY <1>4 DEF Refs
    <3>6. QED
      BY <3>3, <3>4, <3>5 DEF RowInOrder
  <2>2. QED
    BY <1>2, <2>1 DEF HeldInOrder
<1>6. UntouchedAsRead'
  <2>1. \A x \in Held : Untouched(x)' => Untouched(x)
    BY DEF Untouched, SameTool
  <2>2. QED
    BY <1>1, <1>2, <2>1 DEF UntouchedAsRead
<1>7. WrittenInOrder' /\ Staged'
  BY <1>1 DEF WrittenInOrder, Staged, Matches, SameTool
<1>8. InsertedInOrder'
  <2>1. \A x \in tool.inserted : x.id \in MediaIds /\ minted[x.id] # None
    BY <1>1, <1>3, RunningFields DEF Promised
  <2>2. QED
    BY <1>1, <2>1 DEF InsertedInOrder, SameTool, MediaKept
<1>9. KnownInOrder'
  <2>1. \A x \in tool.known : x.id \in MediaIds
    BY <1>1, RunningFields DEF Ref
  <2>2. QED
    BY <1>1, <1>3, <2>1 DEF KnownInOrder, SameTool, MediaKept
<1>10. QED
  BY <1>2, <1>4, <1>5, <1>6, <1>7, <1>8, <1>9

LEMMA WriteFileInv ==
  ASSUME IInv, NEW p \in Places, WriteFile(p)
  PROVE  IInv'
<1> DEFINE content == tool.row.state.images[p].content
           owner == tool.row.owner
<1>1. /\ tool.pc \in {"digests", "revisions"} /\ tool.row # None /\ tool.place = None
      /\ tool.row.state.images[p].form = "inline"
      /\ UNCHANGED <<users, digests, revisions, issued, rows, runs, outcome>>
  BY DEF WriteFile, AtImage, tables
<1>2. PICK m \in MediaIds :
        /\ minted[m] = None
        /\ minted' = [minted EXCEPT ![m] = owner]
        /\ files' = [files EXCEPT ![m] = content]
        /\ tool' = [tool EXCEPT !.place = p, !.id = m]
  BY DEF WriteFile, Mint
<1>3. tool # Off
  BY <1>1 DEF Off
<1>4. /\ tool \in Running /\ tool.row \in Row /\ TablesInOrder
      /\ InsertedInOrder /\ KnownInOrder /\ HeldInOrder /\ WrittenInOrder
  BY <1>1, <1>3, RunningInv, RunningFields DEF IInv
<1>5. owner \in Users /\ content \in Contents
  <2>1. tool.row.state \in State /\ owner \in Users
    BY <1>4 DEF Row
  <2>2. QED
    BY <1>1, <2>1, StateFields, ImageForms
<1>6. /\ tool' \in Running /\ SameTool /\ tool'.place = p /\ tool'.id = m
  BY <1>2, <1>4 DEF Running, SameTool
<1>7. /\ minted \in [MediaIds -> Users \cup {None}]
      /\ files \in [MediaIds -> Contents \cup {None}]
      /\ rows[m] = None
  BY <1>2, <1>4 DEF TablesInOrder, TypeOK
<1>8. MediaKept
  BY <1>1, <1>2, <1>7 DEF MediaKept
<1>9. TablesInOrder'
  <2>1. TypeOK'
    <3>1. \A n \in MediaIds : minted'[n] = None => rows'[n] = None /\ files'[n] = None
      BY <1>1, <1>2, <1>4, <1>5, <1>7, StateMigrationAssumption DEF TablesInOrder, TypeOK
    <3>2. QED
      BY <1>1, <1>2, <1>4, <1>5, <1>6, <1>7, <3>1 DEF TablesInOrder, TypeOK
  <2>2. MediaInOrder'
    BY <1>1, <1>2, <1>4, <1>7 DEF TablesInOrder, MediaInOrder
  <2>3. KeysInOrder'
    BY <1>1, <1>4 DEF TablesInOrder, KeysInOrder
  <2>4. CommittedServed'
    <3>1. Committed' = Committed
      BY <1>1 DEF Committed
    <3>2. QED
      BY <1>4, <1>8, <3>1, CommittedKept DEF CommittedServed, Refs
  <2>5. QED
    BY <2>1, <2>2, <2>3, <2>4 DEF TablesInOrder
<1>10. outcome = "none" /\ NoInlineLeft'
  BY <1>1, <1>3, RunningInv DEF NoInlineLeft
<1>11. \A x \in Held : Current(x)' = Current(x)
  BY <1>1 DEF Current
<1>12. /\ HeldInOrder' /\ UntouchedAsRead' /\ WrittenInOrder' /\ InsertedInOrder'
       /\ KnownInOrder' /\ Staged' /\ Held' = Held
  <2>1. \A x \in tool.inserted : x.owner \in users'
    BY <1>1, <1>4 DEF InsertedInOrder
  <2>2. \A x \in Held : digests'[x.digest] # None => x.version <= digests'[x.digest].version
    BY <1>1, <1>4 DEF HeldInOrder, RowInOrder
  <2>3. \A x \in tool.written : digests'[x.digest] # None
    BY <1>1, <1>4 DEF WrittenInOrder
  <2>4. QED
    BY <1>3, <1>6, <1>8, <1>11, <2>1, <2>2, <2>3, ToolKept
<1>13. FileInHand'
  <2>1. \A s \in Committed : m \notin Refs(s)
    BY <1>2, <1>4 DEF TablesInOrder, CommittedServed, Good
  <2>2. \A x \in Held : m \notin Refs(x.state)
    BY <1>2, <1>3, <1>4, PromisedIsMade DEF HeldInOrder, RowInOrder
  <2>3. \A x \in tool.inserted : x.id # m
    BY <1>2, <1>3, PromisedIsMade DEF Promised
  <2>4. \A x \in tool.known : x.id # m
    BY <1>2, <1>4 DEF KnownInOrder
  <2>5. Committed' = Committed
    BY <1>1 DEF Committed
  <2>6. files'[m] = content /\ minted'[m] = owner /\ rows'[m] = None
    BY <1>1, <1>2, <1>7
  <2>7. m # None
    BY StateMigrationAssumption
  <2>8. tool'.row = tool.row /\ tool'.known = tool.known /\ tool'.inserted = tool.inserted
    BY <1>6 DEF SameTool
  <2>9. QED
    BY <1>1, <1>6, <1>12, <2>1, <2>2, <2>3, <2>4, <2>5, <2>6, <2>7, <2>8
    DEF FileInHand, Refs
<1>14. DigestsCovered' /\ RevisionsCovered'
  <2>1. DigestsCovered /\ RevisionsCovered
    BY <1>3, RunningInv
  <2>2. QED
    BY <1>1, <1>6, <1>12, <2>1 DEF DigestsCovered, RevisionsCovered, Matches, SameTool
<1>15. QED
  BY <1>1, <1>9, <1>10, <1>12, <1>13, <1>14 DEF IInv, ToolInOrder

(***************************************************************************)
(* The command gives up: what it wrote in the transaction is gone, a file  *)
(* it may leave, or take away again.                                       *)
(***************************************************************************)
LEMMA FailInv ==
  ASSUME IInv, Fail
  PROVE  IInv'
<1>1. /\ tool' = Off /\ outcome' = "failed" /\ Quiet /\ UNCHANGED runs
  BY DEF Fail, tables, media, Quiet
<1>2. TablesInOrder'
  BY <1>1, QuietTables DEF IInv, TablesInOrder, TypeOK
<1>3. QED
  BY <1>1, <1>2 DEF IInv, NoInlineLeft, ToolInOrder

LEMMA InsertFailsInv ==
  ASSUME IInv, InsertFails
  PROVE  IInv'
<1>1. /\ files' = [files EXCEPT ![tool.id] = None]
      /\ tool # Off /\ tool.place # None /\ tool' = Off /\ outcome' = "failed"
      /\ UNCHANGED <<users, digests, revisions, issued, rows, minted, runs>>
  BY DEF InsertFails, tables
<1>2. \A s \in Committed : tool.id \notin Refs(s)
  BY <1>1, RunningInv DEF FileInHand
<1>3. files \in [MediaIds -> Contents \cup {None}]
  BY DEF IInv, TablesInOrder, TypeOK
<1>4. \A m \in MediaIds : files'[m] = files[m] \/ (m = tool.id /\ files'[m] = None)
  BY <1>1, <1>3
<1>5. files' \in [MediaIds -> Contents \cup {None}]
  BY <1>1, <1>3
<1>6. TypeOK'
  BY <1>1, <1>4, <1>5 DEF IInv, TablesInOrder, TypeOK
<1>7. MediaInOrder'
  BY <1>1, <1>4 DEF IInv, TablesInOrder, MediaInOrder
<1>8. KeysInOrder'
  BY <1>1 DEF IInv, TablesInOrder, KeysInOrder
<1>9. CommittedServed'
  <2>1. Committed' = Committed
    BY <1>1 DEF Committed
  <2>2. \A s \in Committed : \A m \in Refs(s) : m \in MediaIds /\ m # tool.id /\ Good(m)
    BY <1>2 DEF IInv, TablesInOrder, CommittedServed, Refs
  <2>3. \A s \in Committed : \A m \in Refs(s) : Good(m)'
    BY <1>1, <1>4, <2>2 DEF Good
  <2>4. QED
    BY <2>1, <2>3 DEF CommittedServed, Refs
<1>10. QED
  BY <1>1, <1>6, <1>7, <1>8, <1>9 DEF IInv, TablesInOrder, NoInlineLeft, ToolInOrder

(***************************************************************************)
(* The commit: every row is as it was and clean, or as a row the command   *)
(* has written, and the media rows it has inserted are there.              *)
(***************************************************************************)
LEMMA AtCommit ==
  ASSUME IInv, Commit
  PROVE  /\ tool # Off /\ tool.pc = "commit" /\ tool.pending = {} /\ tool.row = None
         /\ Held = tool.written /\ tool.place = None
         /\ \A w \in tool.written :
              /\ w \in Row /\ w.state \in State /\ RowInOrder(w)
              /\ Matches(w.state) = {} /\ digests[w.digest] # None
<1>1. tool.pc = "commit" /\ tool # Off
  BY DEF Commit, Off
<1>2. tool.pending = {} /\ tool.row = None /\ tool.place = None
  BY <1>1, RunningInv DEF Staged, FileInHand
<1>3. Held = tool.written
  BY <1>2 DEF Held
<1>4. \A w \in tool.written : /\ w \in Row /\ w.state \in State /\ RowInOrder(w)
                              /\ Matches(w.state) = {} /\ digests[w.digest] # None
  BY <1>1, <1>3, RunningInv, HeldAreRows
  DEF IInv, TablesInOrder, HeldInOrder, WrittenInOrder
<1>5. QED
  BY <1>1, <1>2, <1>3, <1>4

LEMMA CommitDigests ==
  ASSUME IInv, Commit, NEW d \in DigestIds
  PROVE  \/ /\ digests'[d] = digests[d]
            /\ digests[d] # None => Matches(digests[d].state) = {}
         \/ \E w \in WrittenTo("digests", d) :
              /\ digests[d] # None
              /\ digests'[d] = [digests[d] EXCEPT !.state = w.state]
<1> DEFINE writes == WrittenTo("digests", d)
<1>1. digests'[d] = IF writes = {} THEN digests[d]
                    ELSE [digests[d] EXCEPT !.state = (CHOOSE w \in writes : TRUE).state]
  BY DEF Commit
<1>2. CASE writes = {}
  <2>1. ~ \E w \in Held : w.table = "digests" /\ w.digest = d
    BY <1>2, AtCommit DEF WrittenTo
  <2>2. digests[d] # None => Matches(digests[d].state) = {}
    BY <2>1, AtCommit, RunningInv DEF DigestsCovered
  <2>3. QED
    BY <1>1, <1>2, <2>2
<1>3. CASE writes # {}
  <2>1. (CHOOSE w \in writes : TRUE) \in writes
    BY <1>3
  <2>2. PICK w \in writes : w = CHOOSE v \in writes : TRUE
    BY <2>1
  <2>3. digests[d] # None
    BY AtCommit DEF WrittenTo
  <2>4. digests'[d] = [digests[d] EXCEPT !.state = w.state]
    BY <1>1, <1>3, <2>2
  <2>5. QED
    BY <2>3, <2>4
<1>4. QED
  BY <1>2, <1>3

LEMMA CommitRevisions ==
  ASSUME IInv, Commit, NEW x \in revisions
  PROVE  \/ NewState(x) = x.state /\ Matches(x.state) = {}
         \/ \E w \in WrittenTo("revisions", x.digest) :
              w.version = x.version /\ NewState(x) = w.state
<1> DEFINE writes == {w \in WrittenTo("revisions", x.digest) : w.version = x.version}
<1>1. CASE writes = {}
  <2>1. ~ \E w \in Held : /\ w.table = "revisions" /\ w.digest = x.digest
                          /\ w.version = x.version
    BY <1>1, AtCommit DEF WrittenTo
  <2>2. Matches(x.state) = {}
    BY <2>1, AtCommit, RunningInv DEF RevisionsCovered
  <2>3. QED
    BY <1>1, <2>2 DEF NewState
<1>2. CASE writes # {}
  <2>1. (CHOOSE w \in writes : TRUE) \in writes
    BY <1>2
  <2>2. NewState(x) = (CHOOSE w \in writes : TRUE).state
    BY <1>2 DEF NewState
  <2>3. QED
    BY <2>1, <2>2
<1>3. QED
  BY <1>1, <1>2

LEMMA CommitMedia ==
  ASSUME IInv, Commit, NEW m \in MediaIds
  PROVE  /\ rows'[m] \in MediaRow \cup {None}
         /\ rows'[m] # None =>
              minted[m] = rows'[m].owner /\ files[m] \in {None, rows'[m].content}
         /\ rows'[m] # None => minted[m] # None
         /\ Promised(m) => Good(m)'
<1> DEFINE stored == {y \in tool.inserted : y.id = m}
<1>1. /\ rows \in [MediaIds -> MediaRow \cup {None}]
      /\ rows[m] # None =>
           minted[m] = rows[m].owner /\ files[m] \in {None, rows[m].content}
      /\ minted[m] = None => rows[m] = None
  BY DEF IInv, TablesInOrder, TypeOK, MediaInOrder
<1>2. UNCHANGED <<users, files, minted>>
  BY DEF Commit
<1>3. rows'[m] = IF \E x \in tool.inserted : x.id = m
                 THEN LET x == CHOOSE y \in tool.inserted : y.id = m
                      IN  [owner |-> x.owner, content |-> x.content]
                 ELSE rows[m]
  BY DEF Commit
<1>4. CASE \E x \in tool.inserted : x.id = m
  <2>1. PICK x : x \in tool.inserted /\ x.id = m /\ x = CHOOSE y \in tool.inserted : y.id = m
    BY <1>4
  <2>2. rows'[m] = [owner |-> x.owner, content |-> x.content]
    BY <1>3, <1>4, <2>1
  <2>3. x \in [id : MediaIds, owner : Users, content : Contents]
    BY <2>1, AtCommit, RunningInv, RunningFields
  <2>4. minted[m] = x.owner /\ files[m] = x.content
    BY <2>1, AtCommit, RunningInv DEF InsertedInOrder
  <2>5. rows'[m] \in MediaRow
    BY <2>2, <2>3 DEF MediaRow
  <2>6. x.owner # None /\ rows'[m] # None
    BY <2>3, <2>5, StateMigrationAssumption
  <2>7. QED
    BY <1>2, <2>2, <2>4, <2>5, <2>6 DEF Good
<1>5. CASE ~ \E x \in tool.inserted : x.id = m
  <2>1. rows'[m] = rows[m] /\ (Promised(m) => Good(m))
    BY <1>3, <1>5 DEF Promised
  <2>2. QED
    BY <1>1, <1>2, <2>1 DEF Good
<1>6. QED
  BY <1>4, <1>5

LEMMA CommitInv ==
  ASSUME IInv, Commit
  PROVE  IInv'
<1>1. /\ revisions' = {[x EXCEPT !.state = NewState(x)] : x \in revisions}
      /\ digests' \in [DigestIds -> {digests'[d] : d \in DigestIds}]
      /\ rows' \in [MediaIds -> {rows'[m] : m \in MediaIds}]
      /\ tool' = Off /\ outcome' = "done"
      /\ UNCHANGED <<users, issued, files, minted, runs>>
  BY DEF Commit
<1>2. /\ digests \in [DigestIds -> Digest \cup {None}] /\ revisions \subseteq Revision
      /\ \A s \in Committed : s \in State
  BY CommittedAreStates DEF IInv, TablesInOrder, TypeOK
<1>3. ASSUME NEW d \in DigestIds, digests[d] # None
      PROVE  /\ digests'[d] \in Digest /\ digests'[d].version = digests[d].version
             /\ Matches(digests'[d].state) = {}
             /\ \A m \in Refs(digests'[d].state) : Promised(m)
  <2>1. digests[d] \in Digest
    BY <1>2, <1>3
  <2>2. CASE digests'[d] = digests[d] /\ Matches(digests[d].state) = {}
    <3>1. \A m \in Refs(digests[d].state) : Good(m)
      BY <1>3 DEF IInv, TablesInOrder, CommittedServed, Committed
    <3>2. QED
      BY <2>1, <2>2, <3>1 DEF Promised
  <2>3. ASSUME NEW w \in WrittenTo("digests", d),
               digests'[d] = [digests[d] EXCEPT !.state = w.state]
        PROVE  /\ digests'[d] \in Digest /\ digests'[d].version = digests[d].version
               /\ Matches(digests'[d].state) = {}
               /\ \A m \in Refs(digests'[d].state) : Promised(m)
    <3>1. w.state \in State /\ Matches(w.state) = {} /\ RowInOrder(w)
      BY AtCommit DEF WrittenTo
    <3>2. /\ digests'[d] \in Digest /\ digests'[d].version = digests[d].version
          /\ digests'[d].state = w.state
      BY <2>1, <2>3, <3>1 DEF Digest
    <3>3. QED
      BY <3>1, <3>2 DEF RowInOrder
  <2>4. QED
    BY <1>3, <2>2, <2>3, CommitDigests
<1>4. \A d \in DigestIds : digests[d] = None <=> digests'[d] = None
  <2>1. \A d \in DigestIds : digests[d] = None => digests'[d] = None
    BY CommitDigests
  <2>2. \A d \in DigestIds : digests[d] # None => digests'[d] # None
    BY <1>3, StateMigrationAssumption
  <2>3. QED
    BY <2>1, <2>2
<1>5. ASSUME NEW x \in revisions, NEW y, y = [x EXCEPT !.state = NewState(x)]
      PROVE  /\ y \in Revision /\ y.digest = x.digest /\ y.version = x.version
             /\ y.state = NewState(x) /\ Matches(y.state) = {}
             /\ \A m \in Refs(y.state) : Promised(m)
  <2>1. x \in Revision /\ x.state \in State
    BY <1>2 DEF Revision
  <2>2. NewState(x) \in State /\ Matches(NewState(x)) = {}
        /\ \A m \in Refs(NewState(x)) : Promised(m)
    <3>1. CASE NewState(x) = x.state /\ Matches(x.state) = {}
      <4>1. \A m \in Refs(x.state) : Good(m)
        BY DEF IInv, TablesInOrder, CommittedServed, Committed
      <4>2. QED
        BY <2>1, <3>1, <4>1 DEF Promised
    <3>2. ASSUME NEW w \in WrittenTo("revisions", x.digest), NewState(x) = w.state
          PROVE  NewState(x) \in State /\ Matches(NewState(x)) = {}
                 /\ \A m \in Refs(NewState(x)) : Promised(m)
      <4>1. w.state \in State /\ Matches(w.state) = {} /\ RowInOrder(w)
        BY AtCommit DEF WrittenTo
      <4>2. QED
        BY <3>2, <4>1 DEF RowInOrder
    <3>3. QED
      BY <3>1, <3>2, CommitRevisions
  <2>3. /\ y \in Revision /\ y.digest = x.digest /\ y.version = x.version
        /\ y.state = NewState(x)
    BY <1>5, <2>1, <2>2 DEF Revision
  <2>4. QED
    BY <2>2, <2>3
<1>6. TypeOK'
  <2>1. digests' \in [DigestIds -> Digest \cup {None}]
    BY <1>1, <1>3, <1>4
  <2>2. revisions' \subseteq Revision
    BY <1>1, <1>5
  <2>3. rows' \in [MediaIds -> MediaRow \cup {None}]
    BY <1>1, CommitMedia
  <2>4. \A m \in MediaIds : minted'[m] = None => rows'[m] = None /\ files'[m] = None
    BY <1>1, CommitMedia DEF IInv, TablesInOrder, TypeOK
  <2>5. QED
    BY <1>1, <2>1, <2>2, <2>3, <2>4 DEF IInv, TablesInOrder, TypeOK
<1>7. MediaInOrder'
  BY <1>1, CommitMedia DEF MediaInOrder
<1>8. KeysInOrder'
  <2>1. \A y \in revisions' : \E x \in revisions : y = [x EXCEPT !.state = NewState(x)]
    BY <1>1
  <2>2. \A y \in revisions' : /\ digests'[y.digest] # None
                              /\ y.version <= digests'[y.digest].version
    <3>1. TAKE y \in revisions'
    <3>2. PICK x \in revisions : y = [x EXCEPT !.state = NewState(x)]
      BY <2>1
    <3>3. y.digest = x.digest /\ y.version = x.version /\ x.digest \in DigestIds
      BY <1>2, <1>5, <3>2 DEF Revision
    <3>4. digests[x.digest] # None /\ x.version <= digests[x.digest].version
      BY DEF IInv, TablesInOrder, KeysInOrder
    <3>5. QED
      BY <1>3, <1>4, <3>3, <3>4
  <2>3. \A y, z \in revisions' : y.digest = z.digest /\ y.version = z.version => y = z
    <3>1. SUFFICES ASSUME NEW y \in revisions', NEW z \in revisions',
                          y.digest = z.digest, y.version = z.version
                   PROVE  y = z
      OBVIOUS
    <3>2. PICK v \in revisions : y = [v EXCEPT !.state = NewState(v)]
      BY <2>1
    <3>3. PICK w \in revisions : z = [w EXCEPT !.state = NewState(w)]
      BY <2>1
    <3>4. y.digest = v.digest /\ y.version = v.version
      BY <1>5, <3>2
    <3>5. z.digest = w.digest /\ z.version = w.version
      BY <1>5, <3>3
    <3>6. v = w
      BY <3>1, <3>4, <3>5 DEF IInv, TablesInOrder, KeysInOrder
    <3>7. QED
      BY <3>2, <3>3, <3>6
  <2>4. QED
    BY <2>2, <2>3 DEF KeysInOrder
<1>9. CommittedServed'
  <2>1. \A s \in Committed' : \A m \in Refs(s) : m \in MediaIds /\ Promised(m)
    BY <1>1, <1>3, <1>4, <1>5 DEF Committed, Refs
  <2>2. \A s \in Committed' : \A m \in Refs(s) : Good(m)'
    BY <2>1, CommitMedia
  <2>3. QED
    BY <2>2 DEF CommittedServed, Refs
<1>10. NoInlineLeft'
  <2>1. \A d \in DigestIds : digests'[d] # None => Matches(digests'[d].state) = {}
    BY <1>3, <1>4
  <2>2. \A y \in revisions' : Matches(y.state) = {}
    BY <1>1, <1>5
  <2>3. QED
    BY <2>1, <2>2 DEF NoInlineLeft, Matches
<1>11. QED
  BY <1>1, <1>6, <1>7, <1>8, <1>9, <1>10 DEF IInv, TablesInOrder, ToolInOrder

(***************************************************************************)
(* A save: its images are stored first, or found stored.                   *)
(***************************************************************************)
LEMMA StoredImages ==
  ASSUME NEW u, NEW s, NEW made, NEW url, StoreImages(u, s, made, url), NEW m \in MediaIds
  PROVE  \/ /\ \A p \in made : url[p] # m
            /\ rows'[m] = rows[m] /\ files'[m] = files[m] /\ minted'[m] = minted[m]
         \/ \E p \in made :
              /\ url[p] = m /\ minted[m] = None
              /\ rows'[m] = [owner |-> u, content |-> s.images[p].content]
              /\ files'[m] = s.images[p].content /\ minted'[m] = u
<1> DEFINE of == {p \in made : url[p] = m}
<1>1. /\ \A p \in of : minted[url[p]] = None
      /\ rows'[m] = IF of = {} THEN rows[m] ELSE
                      [owner |-> u, content |-> s.images[CHOOSE p \in of : TRUE].content]
      /\ files'[m] = IF of = {} THEN files[m]
                     ELSE s.images[CHOOSE p \in of : TRUE].content
      /\ minted'[m] = IF of = {} THEN minted[m] ELSE u
  BY DEF StoreImages
<1>2. CASE of = {}
  BY <1>1, <1>2
<1>3. CASE of # {}
  <2>1. PICK p \in of : p = CHOOSE q \in of : TRUE
    BY <1>3
  <2>2. /\ rows'[m] = [owner |-> u, content |-> s.images[p].content]
        /\ files'[m] = s.images[p].content /\ minted'[m] = u
        /\ minted[url[p]] = None
    BY <1>1, <1>3, <2>1
  <2>3. QED
    BY <2>1, <2>2
<1>4. QED
  BY <1>2, <1>3

(* An inline image has a content.                                           *)
LEMMA InlineContent ==
  ASSUME NEW s \in State, NEW p \in Inlines(s)
  PROVE  s.images[p] = Inline(s.images[p].content) /\ s.images[p].content \in Contents
<1>1. s.images[p] \in Image /\ s.images[p].form = "inline"
  BY StateFields DEF Inlines
<1>2. PICK c \in Contents : s.images[p] = Inline(c)
  BY <1>1 DEF Image, PlainImages, NoImage, Broken, Foreign, Stored
<1>3. QED
  BY <1>2 DEF Inline

(* Each inline image of s has been stored under its URL.                    *)
URLsServed(s, url) ==
  \A p \in Inlines(s), m \in MediaIds : m = url[p] =>
    Good(m) /\ rows[m] # None /\ files[m] = s.images[p].content

LEMMA StoreImagesEffect ==
  ASSUME TablesInOrder, NEW u \in Users, NEW s \in State,
         NEW made \in SUBSET Inlines(s), NEW url \in [Inlines(s) -> MediaIds],
         StoreImages(u, s, made, url), users' = users
  PROVE  /\ MediaKept /\ MediaInOrder'
         /\ rows' \in [MediaIds -> MediaRow \cup {None}]
         /\ files' \in [MediaIds -> Contents \cup {None}]
         /\ minted' \in [MediaIds -> Users \cup {None}]
         /\ \A m \in MediaIds : minted'[m] = None => rows'[m] = None /\ files'[m] = None
         /\ \A m \in MediaIds : minted[m] # None => rows'[m] = rows[m]
         /\ URLsServed(s, url)'
<1> DEFINE content(p) == s.images[p].content
           of(m) == {p \in made : url[p] = m}
<1>1. /\ \A p \in Inlines(s) \ made :
           \/ url[p] \in Copies(content(p))
           \/ \E q \in made : content(q) = content(p) /\ url[p] = url[q]
      /\ \A p \in made : of(url[p]) = {p}
      /\ rows' = [m \in MediaIds |-> rows'[m]]
      /\ files' = [m \in MediaIds |-> files'[m]]
      /\ minted' = [m \in MediaIds |-> minted'[m]]
  BY DEF StoreImages
<1>2. /\ rows \in [MediaIds -> MediaRow \cup {None}]
      /\ files \in [MediaIds -> Contents \cup {None}]
      /\ minted \in [MediaIds -> Users \cup {None}]
      /\ \A m \in MediaIds : minted[m] = None => rows[m] = None /\ files[m] = None
  BY DEF TablesInOrder, TypeOK
<1>3. u # None /\ \A p \in Inlines(s) : content(p) \in Contents
  BY StateMigrationAssumption, InlineContent
<1>4. ASSUME NEW m \in MediaIds
      PROVE  \/ /\ of(m) = {} /\ rows'[m] = rows[m]
                /\ files'[m] = files[m] /\ minted'[m] = minted[m]
             \/ \E p \in made : /\ url[p] = m /\ minted[m] = None
                                /\ rows'[m] = [owner |-> u, content |-> content(p)]
                                /\ files'[m] = content(p) /\ minted'[m] = u
  <2>1. \/ /\ \A p \in made : url[p] # m
           /\ rows'[m] = rows[m] /\ files'[m] = files[m] /\ minted'[m] = minted[m]
        \/ \E p \in made :
             /\ url[p] = m /\ minted[m] = None
             /\ rows'[m] = [owner |-> u, content |-> s.images[p].content]
             /\ files'[m] = s.images[p].content /\ minted'[m] = u
    BY StoredImages
  <2>2. QED
    BY <2>1
<1>5. \A p \in made : /\ p \in Inlines(s) /\ content(p) \in Contents
                     /\ [owner |-> u, content |-> content(p)] \in MediaRow
  BY <1>3 DEF MediaRow
<1>6. MediaKept /\ \A m \in MediaIds : minted[m] # None => rows'[m] = rows[m]
  BY <1>4 DEF MediaKept
<1>7. ASSUME NEW m \in MediaIds
      PROVE  \/ rows'[m] = rows[m] /\ files'[m] = files[m] /\ minted'[m] = minted[m]
             \/ \E c \in Contents :
                  /\ rows'[m] = [owner |-> u, content |-> c] /\ rows'[m] \in MediaRow
                  /\ files'[m] = c /\ minted'[m] = u
  <2>1. CASE of(m) = {} /\ rows'[m] = rows[m] /\ files'[m] = files[m] /\ minted'[m] = minted[m]
    BY <2>1
  <2>2. ASSUME NEW p \in made, rows'[m] = [owner |-> u, content |-> content(p)],
               files'[m] = content(p), minted'[m] = u
        PROVE  \E b \in Contents :
                 /\ rows'[m] = [owner |-> u, content |-> b] /\ rows'[m] \in MediaRow
                 /\ files'[m] = b /\ minted'[m] = u
    BY <1>5, <2>2
  <2>3. QED
    BY <1>4, <2>1, <2>2
<1> HIDE DEF content, of
<1>8. /\ MediaInOrder'
      /\ \A m \in MediaIds : /\ rows'[m] \in MediaRow \cup {None}
                             /\ files'[m] \in Contents \cup {None}
                             /\ minted'[m] \in Users \cup {None}
                             /\ minted'[m] = None => rows'[m] = None /\ files'[m] = None
  <2>1. ASSUME NEW m \in MediaIds
        PROVE  /\ rows'[m] # None =>
                    minted'[m] = rows'[m].owner /\ files'[m] \in {None, rows'[m].content}
               /\ rows'[m] \in MediaRow \cup {None}
               /\ files'[m] \in Contents \cup {None}
               /\ minted'[m] \in Users \cup {None}
               /\ minted'[m] = None => rows'[m] = None /\ files'[m] = None
    <3>1. CASE rows'[m] = rows[m] /\ files'[m] = files[m] /\ minted'[m] = minted[m]
      BY <1>2, <3>1 DEF TablesInOrder, MediaInOrder
    <3>2. ASSUME NEW c \in Contents,
                 rows'[m] = [owner |-> u, content |-> c], rows'[m] \in MediaRow,
                 files'[m] = c, minted'[m] = u
          PROVE  /\ minted'[m] = rows'[m].owner /\ files'[m] \in {None, rows'[m].content}
                 /\ rows'[m] \in MediaRow \cup {None}
                 /\ files'[m] \in Contents \cup {None}
                 /\ minted'[m] \in Users /\ minted'[m] # None
      BY <1>3, <3>2
    <3>3. QED
      BY <1>7, <3>1, <3>2
  <2>2. QED
    BY <2>1 DEF MediaInOrder
<1>9. /\ rows' \in [MediaIds -> MediaRow \cup {None}]
      /\ files' \in [MediaIds -> Contents \cup {None}]
      /\ minted' \in [MediaIds -> Users \cup {None}]
  BY <1>1, <1>8
<1>10. ASSUME NEW q \in made, NEW m \in MediaIds, m = url[q]
       PROVE  Good(m)' /\ rows'[m] # None /\ files'[m] = content(q)
  <2>1. q \in of(m)
    BY <1>10 DEF of
  <2>2. PICK p \in made : /\ url[p] = m /\ minted'[m] = u
                          /\ rows'[m] = [owner |-> u, content |-> content(p)]
                          /\ files'[m] = content(p)
    BY <1>4, <2>1
  <2>3. p = q
    BY <1>1, <1>10, <2>2 DEF of
  <2>4. rows'[m] # None
    BY <1>5, <2>2, StateMigrationAssumption
  <2>5. QED
    BY <1>3, <2>2, <2>3, <2>4 DEF Good
<1>11. ASSUME NEW p \in Inlines(s), p \notin made, NEW m \in MediaIds, m = url[p]
       PROVE  Good(m)' /\ rows'[m] # None /\ files'[m] = content(p)
  <2>1. CASE m \in Copies(content(p))
    <3>1. rows[m] # None /\ rows[m].content = content(p) /\ files[m] # None
      BY <2>1 DEF Copies, RowsOf
    <3>2. minted[m] # None /\ files[m] = content(p)
      BY <1>2, <3>1 DEF TablesInOrder, MediaInOrder
    <3>3. Good(m)
      BY <3>1, <3>2 DEF Good
    <3>4. rows'[m] = rows[m] /\ files'[m] = files[m]
      BY <1>4, <3>2
    <3>5. QED
      BY <1>6, <3>1, <3>2, <3>3, <3>4, GoodKept
  <2>2. CASE m \notin Copies(content(p))
    BY <1>1, <1>10, <1>11, <2>2
  <2>3. QED
    BY <2>1, <2>2
<1>12. URLsServed(s, url)'
  BY <1>10, <1>11 DEF URLsServed, content
<1>13. QED
  BY <1>6, <1>8, <1>9, <1>12

(* What is saved: no inline image, and the URLs just found besides those    *)
(* the state had.                                                           *)
LEMMA WithURLsEffect ==
  ASSUME NEW s \in State, \A p \in Places : s.images[p] # Broken,
         NEW url \in [Inlines(s) -> MediaIds]
  PROVE  /\ WithURLs(s, url) \in State /\ Matches(WithURLs(s, url)) = {}
         /\ WithURLs(s, url).edit = s.edit
         /\ \A p \in Inlines(s) : WithURLs(s, url).images[p] = Stored(url[p])
         /\ \A p \in Places \ Inlines(s) : WithURLs(s, url).images[p] = s.images[p]
         /\ \A m \in Refs(WithURLs(s, url)) :
              m \in Refs(s) \/ \E p \in Inlines(s) : m = url[p]
<1> DEFINE saved == WithURLs(s, url)
<1>1. s.images \in [Places -> Image] /\ \A p \in Places : s.images[p] \in Image
  BY StateFields
<1>2. Inlines(s) \subseteq Places
  BY DEF Inlines
<1>3. /\ saved.edit = s.edit
      /\ saved.images = [p \in Places |-> IF p \in Inlines(s) THEN Stored(url[p])
                                                              ELSE s.images[p]]
      /\ saved = [s EXCEPT !.images = saved.images]
  BY DEF WithURLs, State
<1>4. ASSUME NEW p \in Places
      PROVE  \/ p \in Inlines(s) /\ saved.images[p] = Stored(url[p])
             \/ p \notin Inlines(s) /\ saved.images[p] = s.images[p]
  BY <1>3
<1>5. ASSUME NEW p \in Places
      PROVE  /\ saved.images[p] \in Image
             /\ saved.images[p].form \notin {"inline", "broken"}
  <2>1. \A q \in Inlines(s) : Stored(url[q]) \in Image
    BY DEF Image
  <2>2. s.images[p].form # "broken"
    BY <1>1 DEF Image, PlainImages, NoImage, Inline, Broken, Foreign, Stored
  <2>3. QED
    BY <1>1, <1>4, <2>1, <2>2, StoredForm DEF Inlines
<1>6. saved \in State
  <2>1. saved.images \in [Places -> Image]
    BY <1>3, <1>5
  <2>2. QED
    BY <1>3, <2>1 DEF State
<1>7. Matches(saved) = {}
  BY <1>5 DEF Matches
<1>8. \A m \in Refs(saved) : m \in Refs(s) \/ \E p \in Inlines(s) : m = url[p]
  BY <1>4, StoredForm DEF Refs
<1>9. QED
  BY <1>2, <1>3, <1>4, <1>6, <1>7, <1>8

(* All a save does: the media it needs are there, one digest is a version  *)
(* on, and what it now holds, in the new revision too, is clean, served    *)
(* and shows what was sent.                                                *)
LEMMA SaveEffect ==
  ASSUME TablesInOrder, NEW u \in Users, NEW d \in DigestIds, SaveDigest(u, d)
  PROVE  /\ MediaKept /\ MediaInOrder'
         /\ rows' \in [MediaIds -> MediaRow \cup {None}]
         /\ files' \in [MediaIds -> Contents \cup {None}]
         /\ minted' \in [MediaIds -> Users \cup {None}]
         /\ \A m \in MediaIds : minted'[m] = None => rows'[m] = None /\ files'[m] = None
         /\ \A m \in MediaIds : minted[m] # None => rows'[m] = rows[m]
         /\ digests[d] # None /\ digests[d] \in Digest /\ digests[d].owner = u
         /\ \E s \in Sent \cup {x.state : x \in {y \in revisions : y.digest = d}} :
              \E saved \in State :
                /\ s \in State /\ Matches(saved) = {}
                /\ \A m \in Refs(saved) : Good(m)' /\ (m \in Refs(s) \/ rows'[m] # None)
                /\ \A m \in Refs(s) : Good(m)
                /\ s \in Sent => Refs(s) = {} /\ Means(s) = PlainMeans(s)
                /\ Means(saved)' = Means(s)
                /\ [owner |-> u, version |-> digests[d].version + 1, state |-> saved]
                     \in Digest
                /\ digests' = [digests EXCEPT ![d] =
                     [owner |-> u, version |-> digests[d].version + 1, state |-> saved]]
                /\ revisions' = revisions \cup
                     {[digest |-> d, version |-> digests[d].version + 1, state |-> saved]}
<1>1. digests[d] # None /\ digests[d].owner = u /\ digests[d].version < MaxVersion
      /\ users' = users
  BY DEF SaveDigest, Owned
<1>2. digests[d] \in Digest /\ digests[d].version + 1 \in 1..MaxVersion
  <2>1. digests[d] \in Digest
    BY <1>1 DEF TablesInOrder, TypeOK
  <2>2. QED
    BY <1>1, <2>1, StateMigrationAssumption DEF Digest
<1>3. PICK s \in Sent \cup {x.state : x \in {y \in revisions : y.digest = d}} :
        /\ \A p \in Places : s.images[p] # Broken
        /\ \E made \in SUBSET Inlines(s), url \in [Inlines(s) -> MediaIds] :
             /\ StoreImages(u, s, made, url)
             /\ LET saved == [owner |-> u, version |-> digests[d].version + 1,
                              state |-> WithURLs(s, url)]
                IN  /\ digests' = [digests EXCEPT ![d] = saved]
                    /\ revisions' = revisions \cup
                         {[digest |-> d, version |-> saved.version, state |-> saved.state]}
  BY DEF SaveDigest
<1>4. PICK made \in SUBSET Inlines(s), url \in [Inlines(s) -> MediaIds] :
        /\ StoreImages(u, s, made, url)
        /\ digests' = [digests EXCEPT ![d] =
             [owner |-> u, version |-> digests[d].version + 1, state |-> WithURLs(s, url)]]
        /\ revisions' = revisions \cup
             {[digest |-> d, version |-> digests[d].version + 1, state |-> WithURLs(s, url)]}
  BY <1>3
<1>5. /\ s \in State /\ \A m \in Refs(s) : m \in MediaIds /\ Good(m)
      /\ s \in Sent => s.images \in [Places -> PlainImages] /\ Refs(s) = {}
  <2>1. CASE s \in Sent
    BY <2>1, StateMigrationAssumption, PlainHasNoRefs
  <2>2. CASE s \in Committed
    BY <2>2, CommittedAreStates, StateMigrationAssumption, PlainHasNoRefs
    DEF TablesInOrder, CommittedServed, Refs
  <2>3. QED
    BY <1>3, <2>1, <2>2 DEF Committed
<1>6. PICK saved : saved = WithURLs(s, url)
  OBVIOUS
<1>7. /\ MediaKept /\ MediaInOrder'
      /\ rows' \in [MediaIds -> MediaRow \cup {None}]
      /\ files' \in [MediaIds -> Contents \cup {None}]
      /\ minted' \in [MediaIds -> Users \cup {None}]
      /\ \A m \in MediaIds : minted'[m] = None => rows'[m] = None /\ files'[m] = None
      /\ \A m \in MediaIds : minted[m] # None => rows'[m] = rows[m]
      /\ \A p \in Inlines(s), m \in MediaIds : m = url[p] =>
           Good(m)' /\ rows'[m] # None /\ files'[m] = s.images[p].content
  <2>1. /\ s \in State /\ made \in SUBSET Inlines(s) /\ url \in [Inlines(s) -> MediaIds]
        /\ StoreImages(u, s, made, url) /\ users' = users
    BY <1>1, <1>4, <1>5
  <2>2. URLsServed(s, url)'
    BY <2>1, StoreImagesEffect
  <2>3. /\ MediaKept /\ MediaInOrder'
        /\ rows' \in [MediaIds -> MediaRow \cup {None}]
        /\ files' \in [MediaIds -> Contents \cup {None}]
        /\ minted' \in [MediaIds -> Users \cup {None}]
        /\ \A m \in MediaIds : minted'[m] = None => rows'[m] = None /\ files'[m] = None
        /\ \A m \in MediaIds : minted[m] # None => rows'[m] = rows[m]
    BY <2>1, StoreImagesEffect
  <2>4. QED
    BY <2>2, <2>3 DEF URLsServed
<1>8. /\ saved \in State /\ Matches(saved) = {} /\ saved.edit = s.edit
      /\ \A p \in Inlines(s) : saved.images[p] = Stored(url[p])
      /\ \A p \in Places \ Inlines(s) : saved.images[p] = s.images[p]
      /\ \A m \in Refs(saved) : m \in Refs(s) \/ \E p \in Inlines(s) : m = url[p]
  BY <1>3, <1>5, <1>6, WithURLsEffect
<1>9. \A m \in Refs(saved) : Good(m)' /\ (m \in Refs(s) \/ rows'[m] # None)
  <2>1. \A m \in Refs(s) : Good(m)'
    BY <1>5, <1>7, GoodKept
  <2>2. QED
    BY <1>7, <1>8, <2>1
<1>10. Means(saved)' = Means(s)
  <2>1. \A m \in Refs(s) : files'[m] = files[m]
    BY <1>5, <1>7 DEF MediaKept, Good
  <2>2. ASSUME NEW p \in Places PROVE Meaning(saved.images[p])' = Meaning(s.images[p])
    <3>1. CASE p \in Inlines(s)
      <4>1. Meaning(saved.images[p])' = files'[url[p]]
        BY <1>8, <3>1, StoredForm DEF Meaning
      <4>2. Meaning(s.images[p]) = s.images[p].content
        BY <3>1 DEF Inlines, Meaning, PlainMeaning
      <4>3. url[p] \in MediaIds
        BY <3>1
      <4>4. QED
        BY <1>7, <3>1, <4>1, <4>2, <4>3
    <3>2. CASE p \notin Inlines(s)
      <4>1. s.images[p].form = "media" => s.images[p].id \in Refs(s)
        BY <1>5, StateFields, ImageForms DEF Refs
      <4>2. saved.images[p] = s.images[p]
        BY <1>8, <3>2
      <4>3. QED
        BY <2>1, <4>1, <4>2 DEF Meaning, PlainMeaning
    <3>3. QED
      BY <3>1, <3>2
  <2>3. QED
    BY <1>8, <2>2 DEF Means
<1>11. s \in Sent => Means(s) = PlainMeans(s)
  <2>1. \A i \in PlainImages : i.form # "media"
    BY DEF PlainImages, NoImage, Broken, Foreign, Inline
  <2>2. QED
    BY <1>5, <2>1 DEF Means, PlainMeans, Meaning
<1>12. [owner |-> u, version |-> digests[d].version + 1, state |-> saved] \in Digest
  BY <1>2, <1>8 DEF Digest
<1>13. QED
  BY <1>1, <1>2, <1>4, <1>5, <1>6, <1>7, <1>8, <1>9, <1>10, <1>11, <1>12

LEMMA SaveDigestInv ==
  ASSUME IInv, NEW u \in Users, NEW d \in DigestIds, SaveDigest(u, d)
  PROVE  IInv'
<1> DEFINE version == digests[d].version + 1
<1>1. Up /\ UNCHANGED <<users, issued, tool, runs, outcome>> /\ TablesInOrder
  BY DEF SaveDigest, IInv
<1>2. /\ MediaKept /\ MediaInOrder'
      /\ rows' \in [MediaIds -> MediaRow \cup {None}]
      /\ files' \in [MediaIds -> Contents \cup {None}]
      /\ minted' \in [MediaIds -> Users \cup {None}]
      /\ \A m \in MediaIds : minted'[m] = None => rows'[m] = None /\ files'[m] = None
      /\ \A m \in MediaIds : minted[m] # None => rows'[m] = rows[m]
      /\ digests[d] # None /\ digests[d] \in Digest
  BY <1>1, SaveEffect
<1>3. PICK s \in Sent \cup {x.state : x \in {y \in revisions : y.digest = d}} :
        \E saved \in State :
          /\ s \in State /\ Matches(saved) = {}
          /\ \A m \in Refs(saved) : Good(m)' /\ (m \in Refs(s) \/ rows'[m] # None)
          /\ \A m \in Refs(s) : Good(m)
          /\ s \in Sent => Refs(s) = {} /\ Means(s) = PlainMeans(s)
          /\ Means(saved)' = Means(s)
          /\ [owner |-> u, version |-> digests[d].version + 1, state |-> saved] \in Digest
          /\ digests' = [digests EXCEPT ![d] =
               [owner |-> u, version |-> digests[d].version + 1, state |-> saved]]
          /\ revisions' = revisions \cup
               {[digest |-> d, version |-> digests[d].version + 1, state |-> saved]}
  BY <1>1, SaveEffect
<1>4. PICK saved \in State :
        /\ Matches(saved) = {}
        /\ \A m \in Refs(saved) : Good(m)' /\ (m \in Refs(s) \/ rows'[m] # None)
        /\ s \in Sent => Refs(s) = {}
        /\ [owner |-> u, version |-> version, state |-> saved] \in Digest
        /\ digests' = [digests EXCEPT ![d] =
             [owner |-> u, version |-> version, state |-> saved]]
        /\ revisions' = revisions \cup
             {[digest |-> d, version |-> version, state |-> saved]}
  BY <1>3
<1>5. /\ digests \in [DigestIds -> Digest \cup {None}] /\ revisions \subseteq Revision
      /\ \A x \in revisions : digests[x.digest] # None /\ x.version <= digests[x.digest].version
      /\ digests[d].version \in Nat
  BY <1>1, <1>2, StateMigrationAssumption DEF TablesInOrder, TypeOK, KeysInOrder, Digest
<1>6. /\ \A e \in DigestIds : e # d => digests'[e] = digests[e]
      /\ digests'[d] = [owner |-> u, version |-> version, state |-> saved]
      /\ digests'[d] # None /\ digests'[d].version = version /\ digests'[d].state = saved
      /\ version > digests[d].version
  BY <1>4, <1>5, StateMigrationAssumption
<1>7. TypeOK'
  <2>1. digests' \in [DigestIds -> Digest \cup {None}]
    BY <1>4, <1>5
  <2>2. [digest |-> d, version |-> version, state |-> saved] \in Revision
    BY <1>4 DEF Digest, Revision
  <2>3. QED
    BY <1>1, <1>2, <1>4, <1>5, <2>1, <2>2 DEF TablesInOrder, TypeOK
<1>8. KeysInOrder'
  <2>1. \A x \in revisions : x.digest = d => x.version # version
    BY <1>5, <1>6 DEF Revision
  <2>2. \A x \in revisions : /\ digests'[x.digest] # None
                             /\ x.version <= digests'[x.digest].version
    <3>1. TAKE x \in revisions
    <3>2. x \in Revision
      BY <1>5
    <3>3. x.digest \in DigestIds /\ x.version \in Nat
      BY <3>2, StateMigrationAssumption DEF Revision
    <3>4. QED
      BY <1>5, <1>6, <3>3
  <2>3. \A y \in revisions' :
          y \in revisions \/ y = [digest |-> d, version |-> version, state |-> saved]
    BY <1>4
  <2>4. \A y \in revisions' : /\ digests'[y.digest] # None
                              /\ y.version <= digests'[y.digest].version
    BY <1>5, <1>6, <2>2, <2>3
  <2>5. \A x, y \in revisions' : x.digest = y.digest /\ x.version = y.version => x = y
    BY <1>1, <2>1, <2>3 DEF TablesInOrder, KeysInOrder
  <2>6. QED
    BY <2>4, <2>5 DEF KeysInOrder
<1>9. \A q \in Committed' : q \in Committed \/ q = saved
  BY <1>4, <1>6 DEF Committed
<1>10. CommittedServed'
  <2>1. \A q \in Committed : \A m \in Refs(q) : Good(m)'
    BY <1>1, <1>2, CommittedKept
  <2>2. QED
    BY <1>4, <1>9, <2>1 DEF CommittedServed, Refs
<1>11. NoInlineLeft'
  <2>1. NoInlineLeft
    BY DEF IInv
  <2>2. QED
    BY <1>1, <1>4, <1>6, <2>1 DEF NoInlineLeft, Matches
<1>12. ASSUME tool # Off PROVE ToolInOrder'
  <2>1. /\ tool \in Running /\ outcome = "none" /\ HeldInOrder /\ WrittenInOrder
        /\ InsertedInOrder /\ FileInHand /\ DigestsCovered /\ RevisionsCovered
    BY <1>12, RunningInv
  <2>2. Serving
    BY <1>1, <1>12 DEF Up
  <2>3. ASSUME NEW x \in Held
        PROVE  /\ Current(x)' \subseteq Current(x)
               /\ digests'[x.digest] # None => x.version <= digests'[x.digest].version
    <3>1. x \in Row
      BY <1>1, <1>12, HeldAreRows DEF TablesInOrder
    <3>2. x.digest \in DigestIds /\ x.version \in Nat
      BY <3>1, StateMigrationAssumption DEF Row
    <3>3. digests[x.digest] # None => x.version <= digests[x.digest].version
      BY <2>1 DEF HeldInOrder, RowInOrder
    <3>4. x.digest = d => x.version # version
      BY <1>2, <1>5, <3>2, <3>3
    <3>5. Current(x)' \subseteq Current(x)
      BY <1>4, <1>6, <3>4 DEF Current
    <3>6. QED
      BY <1>2, <1>5, <1>6, <3>2, <3>3, <3>5
  <2>4. \A x \in tool.inserted : x.owner \in users'
    BY <1>1, <2>1 DEF InsertedInOrder
  <2>5. \A x \in tool.written : digests'[x.digest] # None
    <3>1. \A x \in tool.written : x.digest \in DigestIds
      BY <2>1, RunningFields DEF Row
    <3>2. QED
      BY <1>6, <2>1, <3>1 DEF WrittenInOrder
  <2>6. SameTool
    BY <1>1 DEF SameTool
  <2>7. /\ HeldInOrder' /\ UntouchedAsRead' /\ WrittenInOrder' /\ InsertedInOrder'
        /\ KnownInOrder' /\ Staged' /\ Held' = Held
    BY <1>2, <1>12, <2>2, <2>3, <2>4, <2>5, <2>6, ToolKept
  <2>8. FileInHand'
    <3>1. SUFFICES ASSUME tool.place # None PROVE FileInHand'
      BY <1>1 DEF FileInHand
    <3>2. /\ tool.row # None /\ tool.id # None
          /\ tool.row.state.images[tool.place].form = "inline"
          /\ files[tool.id] = tool.row.state.images[tool.place].content
          /\ minted[tool.id] = tool.row.owner /\ rows[tool.id] = None
          /\ \A q \in Committed : tool.id \notin Refs(q)
          /\ \A x \in Held : tool.id \notin Refs(x.state)
          /\ \A x \in tool.inserted : x.id # tool.id
          /\ \A x \in tool.known : x.id # tool.id
      BY <2>1, <3>1 DEF FileInHand
    <3>3. tool.id \in MediaIds /\ minted[tool.id] # None
      BY <2>1, <3>2, RunningFields, StateMigrationAssumption DEF Row
    <3>4. /\ files'[tool.id] = files[tool.id] /\ minted'[tool.id] = minted[tool.id]
          /\ rows'[tool.id] = None
      BY <1>2, <3>2, <3>3 DEF MediaKept
    <3>5. tool.id \notin Refs(s)
      BY <1>3, <1>4, <3>2 DEF Committed
    <3>6. tool.id \notin Refs(saved)
      BY <1>4, <3>4, <3>5
    <3>7. \A q \in Committed' : tool.id \notin Refs(q)
      BY <1>9, <3>2, <3>6
    <3>8. QED
      BY <1>1, <2>7, <3>2, <3>4, <3>7 DEF FileInHand, Refs
  <2>9. DigestsCovered'
    <3>1. \A e \in DigestIds : digests'[e] # None /\ Matches(digests'[e].state) # {} =>
            digests'[e] = digests[e]
      BY <1>4, <1>6
    <3>2. QED
      BY <1>1, <2>1, <2>7, <3>1 DEF DigestsCovered, Matches
  <2>10. RevisionsCovered'
    <3>1. \A y \in revisions' : Matches(y.state) # {} => y \in revisions
      BY <1>4
    <3>2. QED
      BY <1>1, <2>1, <2>7, <3>1 DEF RevisionsCovered, Matches
  <2>11. QED
    BY <1>1, <2>1, <2>7, <2>8, <2>9, <2>10 DEF ToolInOrder
<1>13. ToolInOrder'
  BY <1>1, <1>12 DEF ToolInOrder
<1>14. QED
  BY <1>2, <1>7, <1>8, <1>10, <1>11, <1>13 DEF IInv, TablesInOrder

(***************************************************************************)
(* Deletions: the locks of the transaction keep them from rows it has      *)
(* written and from owners it has inserted media for.                      *)
(***************************************************************************)
LEMMA DropEffect ==
  ASSUME TablesInOrder, NEW ids \in SUBSET DigestIds, Drop(ids)
  PROVE  /\ digests' \in [DigestIds -> Digest \cup {None}] /\ revisions' \subseteq revisions
         /\ \A e \in DigestIds : digests'[e] # None => digests'[e] = digests[e]
         /\ \A e \in DigestIds \ ids : digests'[e] = digests[e]
         /\ \A x \in revisions' : x.digest \notin ids
         /\ KeysInOrder' /\ Committed' \subseteq Committed
         /\ \A x : Current(x)' \subseteq Current(x)
<1>1. /\ digests' = [e \in DigestIds |-> IF e \in ids THEN None ELSE digests[e]]
      /\ revisions' = {x \in revisions : x.digest \notin ids}
  BY DEF Drop
<1>2. /\ digests \in [DigestIds -> Digest \cup {None}] /\ revisions \subseteq Revision
  BY DEF TablesInOrder, TypeOK
<1>3. digests' \in [DigestIds -> Digest \cup {None}] /\ revisions' \subseteq revisions
  BY <1>1, <1>2
<1>4. /\ \A e \in DigestIds : digests'[e] # None => digests'[e] = digests[e]
      /\ \A e \in DigestIds \ ids : digests'[e] = digests[e]
  BY <1>1
<1>5. KeysInOrder'
  <2>1. \A x \in revisions' : x \in revisions /\ x.digest \in DigestIds \ ids
    BY <1>1, <1>2 DEF Revision
  <2>2. KeysInOrder
    BY DEF TablesInOrder
  <2>3. QED
    BY <1>4, <2>1, <2>2 DEF KeysInOrder
<1>6. Committed' \subseteq Committed
  BY <1>3, <1>4 DEF Committed
<1>7. \A x : Current(x)' \subseteq Current(x)
  BY <1>3, <1>4 DEF Current
<1>8. QED
  BY <1>1, <1>3, <1>4, <1>5, <1>6, <1>7

LEMMA DropInv ==
  ASSUME IInv, NEW ids \in SUBSET DigestIds, Drop(ids), Up, MediaKept,
         UNCHANGED <<issued, files, minted, tool, runs, outcome>>,
         rows' \in [MediaIds -> MediaRow \cup {None}],
         \A m \in MediaIds : rows'[m] # None => rows'[m] = rows[m],
         tool # Off => \A x \in tool.inserted : x.owner \in users',
         \A d \in ids : ~DigestLocked(d)
  PROVE  IInv'
<1>1. TablesInOrder
  BY DEF IInv
<1>2. /\ digests' \in [DigestIds -> Digest \cup {None}] /\ revisions' \subseteq revisions
      /\ \A e \in DigestIds : digests'[e] # None => digests'[e] = digests[e]
      /\ \A e \in DigestIds \ ids : digests'[e] = digests[e]
      /\ KeysInOrder' /\ Committed' \subseteq Committed
      /\ \A x : Current(x)' \subseteq Current(x)
  BY <1>1, DropEffect
<1>3. TypeOK' /\ MediaInOrder'
  BY <1>1, <1>2 DEF TablesInOrder, TypeOK, MediaInOrder, MediaKept
<1>4. CommittedServed'
  <2>1. \A q \in Committed : \A m \in Refs(q) : Good(m)'
    BY <1>1, CommittedKept
  <2>2. QED
    BY <1>2, <2>1 DEF CommittedServed, Refs
<1>5. NoInlineLeft'
  <2>1. NoInlineLeft
    BY DEF IInv
  <2>2. QED
    BY <1>2, <2>1 DEF NoInlineLeft, Matches
<1>6. ASSUME tool # Off PROVE ToolInOrder'
  <2>1. /\ tool \in Running /\ outcome = "none" /\ HeldInOrder /\ WrittenInOrder
        /\ InsertedInOrder /\ FileInHand /\ DigestsCovered /\ RevisionsCovered
    BY <1>6, RunningInv
  <2>2. Serving
    BY <1>6 DEF Up
  <2>3. ASSUME NEW x \in Held
        PROVE  /\ Current(x)' \subseteq Current(x)
               /\ digests'[x.digest] # None => x.version <= digests'[x.digest].version
    <3>1. x \in Row
      BY <1>1, <1>6, HeldAreRows DEF TablesInOrder
    <3>2. x.digest \in DigestIds
      BY <3>1 DEF Row
    <3>3. QED
      BY <1>2, <2>1, <3>2 DEF HeldInOrder, RowInOrder
  <2>4. \A x \in tool.written : digests'[x.digest] # None
    <3>1. TAKE x \in tool.written
    <3>2. x \in Row
      BY <2>1, RunningFields
    <3>3. x.digest \in DigestIds /\ x.table \in {"digests", "revisions"}
      BY <3>2 DEF Row
    <3>4. DigestLocked(x.digest)
      BY <1>6, <3>3 DEF DigestLocked, RowLocked, WrittenTo
    <3>5. QED
      BY <1>2, <2>1, <3>3, <3>4 DEF WrittenInOrder
  <2>5. SameTool
    BY DEF SameTool
  <2>6. /\ HeldInOrder' /\ UntouchedAsRead' /\ WrittenInOrder' /\ InsertedInOrder'
        /\ KnownInOrder' /\ Staged' /\ Held' = Held
    BY <1>6, <2>2, <2>3, <2>4, <2>5, ToolKept
  <2>7. FileInHand'
    <3>1. SUFFICES ASSUME tool.place # None PROVE FileInHand'
      BY DEF FileInHand
    <3>2. rows[tool.id] = None /\ tool.id # None
      BY <2>1, <3>1 DEF FileInHand
    <3>3. rows'[tool.id] = None
      BY <2>1, <3>2, RunningFields
    <3>4. QED
      BY <1>2, <2>1, <2>6, <3>3 DEF FileInHand, Refs
  <2>8. DigestsCovered' /\ RevisionsCovered'
    BY <1>2, <2>1, <2>6 DEF DigestsCovered, RevisionsCovered, Matches
  <2>9. QED
    BY <2>1, <2>6, <2>7, <2>8 DEF ToolInOrder
<1>7. ToolInOrder'
  BY <1>6 DEF ToolInOrder
<1>8. QED
  BY <1>2, <1>3, <1>4, <1>5, <1>7 DEF IInv, TablesInOrder

LEMMA DeleteDigestInv ==
  ASSUME IInv, NEW u \in Users, NEW d \in DigestIds, DeleteDigest(u, d)
  PROVE  IInv'
<1>1. /\ Up /\ ~DigestLocked(d) /\ Drop({d})
      /\ UNCHANGED <<users, issued, rows, files, minted, tool, runs, outcome>>
  BY DEF DeleteDigest, media
<1>2. MediaKept
  BY <1>1 DEF MediaKept
<1>3. rows \in [MediaIds -> MediaRow \cup {None}]
  BY DEF IInv, TablesInOrder, TypeOK
<1>4. tool # Off => \A x \in tool.inserted : x.owner \in users'
  BY <1>1, RunningInv DEF InsertedInOrder
<1>5. {d} \in SUBSET DigestIds /\ \A e \in {d} : ~DigestLocked(e)
  BY <1>1
<1>6. QED
  BY <1>1, <1>2, <1>3, <1>4, <1>5, DropInv

LEMMA DeleteUserInv ==
  ASSUME IInv, NEW u \in Users, DeleteUser(u)
  PROVE  IInv'
<1> DEFINE ids == {d \in DigestIds : Owned(u, d)}
<1>1. /\ Up /\ u \in users /\ ~UserLocked(u) /\ users' = users \ {u}
      /\ \A d \in ids : ~DigestLocked(d)
      /\ Drop(ids)
      /\ rows' = [m \in MediaIds |->
                    IF rows[m] # None /\ rows[m].owner = u THEN None ELSE rows[m]]
      /\ UNCHANGED <<issued, files, minted, tool, runs, outcome>>
  BY DEF DeleteUser
<1>2. rows \in [MediaIds -> MediaRow \cup {None}] /\ MediaInOrder
  BY DEF IInv, TablesInOrder, TypeOK
<1>3. MediaKept
  BY <1>1, <1>2 DEF MediaKept, MediaInOrder
<1>4. /\ rows' \in [MediaIds -> MediaRow \cup {None}]
      /\ \A m \in MediaIds : rows'[m] # None => rows'[m] = rows[m]
  BY <1>1, <1>2
<1>5. tool # Off => \A x \in tool.inserted : x.owner \in users'
  BY <1>1, RunningInv DEF InsertedInOrder, UserLocked
<1>6. ids \in SUBSET DigestIds
  OBVIOUS
<1>7. QED
  BY <1>1, <1>3, <1>4, <1>5, <1>6, DropInv

(***************************************************************************)
(* All steps together.                                                     *)
(***************************************************************************)
LEMMA NextIInv ==
  ASSUME IInv, [Next]_vars
  PROVE  IInv'
<1>1. CASE UNCHANGED vars
  <2>1. Quiet /\ UNCHANGED <<tool, runs, outcome>>
    BY <1>1 DEF vars, Quiet
  <2>2. TablesInOrder'
    BY <2>1, QuietTables DEF IInv, TablesInOrder, TypeOK
  <2>3. NoInlineLeft'
    BY <2>1 DEF IInv, NoInlineLeft, Matches, Quiet
  <2>4. CASE tool = Off
    BY <2>1, <2>2, <2>3, <2>4 DEF IInv, ToolInOrder
  <2>5. CASE tool # Off
    <3>1. /\ tool \in Running /\ outcome = "none" /\ HeldInOrder /\ UntouchedAsRead
          /\ Staged /\ DigestsCovered /\ RevisionsCovered /\ FileInHand
      BY <2>5, RunningInv
    <3>2. Held' = Held
      BY <2>1 DEF Held
    <3>3. HeldInOrder'
      BY <2>1, <3>1, <3>2, RowKept DEF HeldInOrder
    <3>4. UntouchedAsRead'
      BY <2>1, <3>1, <3>2, QuietFrame DEF UntouchedAsRead, Untouched
    <3>5. InsertedInOrder' /\ KnownInOrder' /\ WrittenInOrder'
      BY <2>1, <2>5, PartsKept
    <3>6. Staged' /\ DigestsCovered' /\ RevisionsCovered'
      BY <2>1, <3>1, <3>2 DEF Staged, DigestsCovered, RevisionsCovered, Matches, Quiet
    <3>7. FileInHand'
      BY <2>1, <3>1, <3>2 DEF FileInHand, Committed, Refs, Quiet
    <3>8. ToolInOrder'
      BY <2>1, <3>1, <3>3, <3>4, <3>5, <3>6, <3>7 DEF ToolInOrder
    <3>9. QED
      BY <2>2, <2>3, <3>8 DEF IInv
  <2>6. QED
    BY <2>4, <2>5
<1>2. CASE Start
  BY <1>2, StartInv
<1>3. CASE ToolStep
  BY <1>3, LoadInv, ReadDigestsInv, ReadRevisionsInv, TakeRowInv, EndLoopInv,
     ReuseMediaInv, WriteFileInv, InsertMediaInv, UpdateRowInv, LeaveRowInv, CommitInv
  DEF ToolStep
<1>4. CASE Fail
  BY <1>4, FailInv
<1>5. CASE InsertFails
  BY <1>5, InsertFailsInv
<1>6. CASE ServerStep
  BY <1>6, SaveDigestInv, DeleteDigestInv, DeleteUserInv DEF ServerStep
<1>7. QED
  BY <1>1, <1>2, <1>3, <1>4, <1>5, <1>6 DEF Next

LEMMA Invariance == Spec => []IInv
<1>1. Init => IInv
  BY InitIInv
<1>2. IInv /\ [Next]_vars => IInv'
  BY NextIInv
<1>3. QED
  BY <1>1, <1>2, PTL DEF Spec

(***************************************************************************)
(* The theorems.                                                           *)
(***************************************************************************)
(* The tables, the files and the command's progress are of the declared     *)
(* kinds, and nothing exists under an id no user was minted for, wherever   *)
(* the command fails and whatever the server does meanwhile.                *)
THEOREM TypeCorrect == Spec => []TypeOK
<1>1. IInv => TypeOK
  BY DEF IInv, TablesInOrder
<1>2. QED
  BY <1>1, Invariance, PTL

(* A run that ends well has rewritten every digest and every revision, even *)
(* those saved while it ran: what it did not hold was already clean.        *)
THEOREM NothingInlineLeft == Spec => []NoInlineLeft
<1>1. IInv => NoInlineLeft
  BY DEF IInv
<1>2. QED
  BY <1>1, Invariance, PTL

(* No committed state names an image that a failed run has rolled back or   *)
(* a later one replaced: its URL is served as long as the user it was       *)
(* stored for has an account.                                               *)
THEOREM ReferencesAreServed == Spec => []ReferencesServed
<1>1. ASSUME IInv PROVE ReferencesServed
  <2>1. SUFFICES ASSUME NEW s \in Committed, NEW p \in Places, s.images[p].form = "media"
                 PROVE  \/ /\ rows[s.images[p].id] # None
                           /\ files[s.images[p].id] = rows[s.images[p].id].content
                        \/ minted[s.images[p].id] \notin users
    BY DEF ReferencesServed
  <2>2. s \in State
    BY <1>1, CommittedAreStates DEF IInv, TablesInOrder
  <2>3. s.images[p].id \in Refs(s)
    BY <2>1, <2>2, StateFields, ImageForms DEF Refs
  <2>4. Good(s.images[p].id)
    BY <1>1, <2>1, <2>3 DEF IInv, TablesInOrder, CommittedServed
  <2>5. QED
    BY <2>4 DEF Good
<1>2. QED
  BY <1>1, Invariance, PTL

(***************************************************************************)
(* What a step may change for a reader.                                    *)
(***************************************************************************)
LEMMA StepKinds ==
  ASSUME [Next]_vars
  PROVE  UNCHANGED tables \/ Commit \/ ServerStep
BY DEF Next, vars, tables, Start, ToolStep, LoadExistingMedia, ReadDigests, ReadRevisions,
   TakeRow, EndLoop, ReuseMedia, WriteFile, InsertMedia, UpdateRow, LeaveRow, Fail,
   InsertFails

(* A step changes or removes no file that a committed state names.          *)
LEMMA CommittedFiles ==
  ASSUME IInv, [Next]_vars, NEW q \in Committed
  PROVE  q \in State /\ \A m \in Refs(q) : m \in MediaIds /\ Good(m) /\ files'[m] = files[m]
<1>1. TablesInOrder /\ files \in [MediaIds -> Contents \cup {None}]
  BY DEF IInv, TablesInOrder, TypeOK
<1>2. q \in State /\ \A m \in Refs(q) : m \in MediaIds /\ Good(m) /\ minted[m] # None
  BY <1>1, CommittedAreStates DEF TablesInOrder, CommittedServed, Good, Refs
<1>3. SUFFICES \A m \in Refs(q) : files'[m] = files[m]
  BY <1>2
<1>4. CASE files' = files
  BY <1>4
<1>5. ASSUME NEW p \in Places, WriteFile(p) PROVE \A m \in Refs(q) : files'[m] = files[m]
  <2>1. \A m \in MediaIds : minted[m] # None => files'[m] = files[m]
    BY <1>1, <1>5 DEF WriteFile
  <2>2. QED
    BY <1>2, <2>1
<1>6. CASE InsertFails
  <2>1. tool.id \notin Refs(q)
    BY <1>6, RunningInv DEF InsertFails, FileInHand
  <2>2. \A m \in MediaIds : m # tool.id => files'[m] = files[m]
    BY <1>1, <1>6 DEF InsertFails
  <2>3. QED
    BY <1>2, <2>1, <2>2
<1>7. ASSUME NEW u \in Users, NEW d \in DigestIds, SaveDigest(u, d)
      PROVE  \A m \in Refs(q) : files'[m] = files[m]
  <2>1. MediaKept
    BY <1>1, <1>7, SaveEffect
  <2>2. QED
    BY <1>2, <2>1 DEF MediaKept
<1>8. \/ files' = files \/ InsertFails \/ \E p \in Places : WriteFile(p)
      \/ \E u \in Users, d \in DigestIds : SaveDigest(u, d)
  BY DEF Next, vars, media, Start, ToolStep, LoadExistingMedia, ReadDigests, ReadRevisions,
     TakeRow, EndLoop, ReuseMedia, InsertMedia, UpdateRow, LeaveRow, Commit, Fail,
     ServerStep, DeleteDigest, DeleteUser
<1>9. QED
  BY <1>4, <1>5, <1>6, <1>7, <1>8

(* So the committed states mean what they meant.                            *)
LEMMA CommittedShows ==
  ASSUME IInv, [Next]_vars, NEW q \in Committed
  PROVE  q \in State /\ Means(q)' = Means(q)
BY CommittedFiles, ShownKept

(* What the commit writes shows what the row it was read from shows.        *)
LEMMA WrittenShows ==
  ASSUME IInv, Commit
  PROVE  /\ \A w \in tool.written : \A s \in Current(w) : Means(w.state)' = Means(s)
         /\ \A q : Means(q)' = Means(q)
<1>1. files' = files
  BY DEF Commit
<1>2. \A q : Means(q)' = Means(q)
  BY <1>1 DEF Means, Meaning
<1>3. QED
  BY <1>2, AtCommit DEF RowInOrder

LEMMA CommitKeepsRevisions ==
  ASSUME IInv, Commit, NEW x \in revisions, NEW s, s = NewState(x)
  PROVE  Means(s)' = Means(x.state)
<1>1. CASE s = x.state
  BY <1>1, WrittenShows
<1>2. ASSUME NEW w \in WrittenTo("revisions", x.digest),
             w.version = x.version, s = w.state
      PROVE  Means(s)' = Means(x.state)
  <2>1. w \in tool.written /\ x.state \in Current(w)
    BY <1>2 DEF WrittenTo, Current
  <2>2. QED
    BY <1>2, <2>1, WrittenShows
<1>3. QED
  BY <1>1, <1>2, CommitRevisions

(***************************************************************************)
(* What a reader gets, whom a row serves whose user has an account.        *)
(***************************************************************************)

(* An image stays what it was, or goes with an account.                     *)
LEMMA ImageKept ==
  ASSUME IInv, [Next]_vars, NEW q \in Committed, NEW p \in Places,
         NEW i, i = q.images[p]
  PROVE  Keeps(i, i)
<1>1. /\ TablesInOrder /\ MediaInOrder /\ rows \in [MediaIds -> MediaRow \cup {None}]
      /\ i \in Image
  BY CommittedFiles, StateFields DEF IInv, TablesInOrder, TypeOK
<1>2. CASE i.form # "media"
  BY <1>2 DEF Keeps, Served, PlainMeaning
<1>3. CASE i.form = "media"
  <2> DEFINE m == i.id
  <2>1. m \in MediaIds /\ Good(m) /\ files'[m] = files[m]
    <3>1. m \in Refs(q)
      BY <1>1, <1>3, ImageForms DEF Refs
    <3>2. QED
      BY <3>1, CommittedFiles
  <2>2. minted[m] # None /\ (rows[m] # None => /\ minted[m] = rows[m].owner
                                               /\ files[m] \in {None, rows[m].content})
    BY <1>1, <2>1 DEF Good, MediaInOrder
  <2>3. CASE rows'[m] = None <=> rows[m] = None
    BY <1>3, <2>1, <2>3 DEF Keeps, Served
  <2>4. CASE Commit
    <3>1. rows[m] # None => rows'[m] # None
      <4>1. \A x \in tool.inserted : x \in [id : MediaIds, owner : Users, content : Contents]
        BY <2>4, AtCommit, RunningInv, RunningFields
      <4>2. \A x \in tool.inserted : [owner |-> x.owner, content |-> x.content] \in MediaRow
        BY <4>1 DEF MediaRow
      <4>3. QED
        BY <2>1, <2>4, <4>2, StateMigrationAssumption DEF Commit
    <3>2. ASSUME rows[m] = None PROVE rows'[m] = None
      <4>1. minted[m] \notin users
        BY <2>1, <3>2 DEF Good
      <4>2. ~ \E x \in tool.inserted : x.id = m
        BY <2>4, <4>1, AtCommit, RunningInv DEF InsertedInOrder
      <4>3. QED
        BY <2>1, <2>4, <3>2, <4>2 DEF Commit
    <3>3. QED
      BY <2>3, <3>1, <3>2
  <2>5. ASSUME NEW u \in Users, NEW d \in DigestIds, SaveDigest(u, d)
        PROVE  rows'[m] = rows[m]
    BY <1>1, <2>1, <2>2, <2>5, SaveEffect
  <2>6. ASSUME NEW u \in Users, DeleteUser(u), rows'[m] # rows[m]
        PROVE  minted[m] \in users \ users'
    BY <2>1, <2>2, <2>6 DEF DeleteUser
  <2>7. \/ rows' = rows \/ Commit
        \/ \E u \in Users, d \in DigestIds : SaveDigest(u, d)
        \/ \E u \in Users : DeleteUser(u)
    BY DEF Next, vars, media, Start, ToolStep, LoadExistingMedia, ReadDigests,
       ReadRevisions, TakeRow, EndLoop, ReuseMedia, WriteFile, InsertMedia, UpdateRow,
       LeaveRow, Fail, InsertFails, ServerStep, DeleteDigest
  <2>8. CASE minted[m] \in users \ users'
    BY <1>3, <2>8 DEF Keeps
  <2>9. QED
    BY <2>3, <2>4, <2>5, <2>6, <2>7, <2>8
<1>4. QED
  BY <1>2, <1>3

LEMMA CommittedKeeps ==
  ASSUME IInv, [Next]_vars, NEW q \in Committed
  PROVE  ShowsAsBefore(q, q)
BY ImageKept DEF ShowsAsBefore

(* What the command holds for a row is the row's state, with URLs of media   *)
(* it knows in the place of inline images.                                   *)
Derives(s, t) ==
  /\ t.edit = s.edit
  /\ \A p \in Places :
       \/ t.images[p] = s.images[p]
       \/ /\ s.images[p].form = "inline" /\ t.images[p].form = "media"
          /\ [id |-> t.images[p].id, content |-> s.images[p].content] \in tool.known

HeldDerives ==
  tool # Off =>
    /\ tool.pc = "load" => Held = {}
    /\ \A x \in Held : \A s \in Current(x) : Derives(s, x.state)

LEMMA ReplaceDerives ==
  ASSUME tool # Off, tool' # Off, HeldDerives, NEW x \in Held, x \in Row,
         NEW p \in Places, NEW m \in MediaIds, x.state.images[p].form = "inline",
         NEW c, c = x.state.images[p].content, [id |-> m, content |-> c] \in tool'.known,
         tool.known \subseteq tool'.known, NEW y, y = Replaced(x, p, m)
  PROVE  /\ y.table = x.table /\ y.digest = x.digest /\ y.version = x.version
         /\ \A s \in Current(x) : Derives(s, y.state)'
<1>1. x.state \in State
  BY DEF Row
<1>2. /\ y.table = x.table /\ y.digest = x.digest /\ y.version = x.version
      /\ y.state = [x.state EXCEPT !.images[p] = Stored(m)]
  BY DEF Row, Replaced
<1>3. /\ y.state.edit = x.state.edit
      /\ \A q \in Places :
           y.state.images[q] = IF q = p THEN Stored(m) ELSE x.state.images[q]
  BY <1>1, <1>2 DEF State
<1>4. ASSUME NEW s \in Current(x)
      PROVE  Derives(s, y.state)'
  <2>1. Derives(s, x.state)
    BY DEF HeldDerives
  <2>2. ASSUME NEW q \in Places
        PROVE  \/ y.state.images[q] = s.images[q]
               \/ /\ s.images[q].form = "inline" /\ y.state.images[q].form = "media"
                  /\ [id |-> y.state.images[q].id, content |-> s.images[q].content]
                       \in tool'.known
    <3>1. CASE q = p
      <4>1. x.state.images[p] = s.images[p]
        BY <2>1 DEF Derives
      <4>2. QED
        BY <1>3, <3>1, <4>1, StoredForm
    <3>2. CASE q # p
      BY <1>3, <2>1, <3>2 DEF Derives
    <3>3. QED
      BY <3>1, <3>2
  <2>3. QED
    BY <1>3, <2>1, <2>2 DEF Derives
<1>5. QED
  BY <1>2, <1>4

LEMMA HeldKept ==
  ASSUME HeldDerives, tool # Off, tool.known \subseteq tool'.known,
         tool'.pc = "load" => Held' = {},
         \A x \in Held' : x \in Held /\ Current(x)' \subseteq Current(x)
  PROVE  HeldDerives'
<1>1. ASSUME NEW x \in Held', NEW s \in Current(x)'
      PROVE  Derives(s, x.state)'
  BY <1>1 DEF HeldDerives, Derives
<1>2. QED
  BY <1>1 DEF HeldDerives

(* A server step leaves the rows the command has read as they were, saves a  *)
(* newer version or deletes them.                                            *)
LEMMA CurrentShrinks ==
  ASSUME IInv, tool # Off, ServerStep, NEW x \in Held
  PROVE  Current(x)' \subseteq Current(x)
<1>1. TablesInOrder /\ x \in Row /\ RowInOrder(x)
  BY HeldAreRows, RunningInv DEF IInv, TablesInOrder, HeldInOrder
<1>2. ASSUME NEW u \in Users, NEW d \in DigestIds, SaveDigest(u, d)
      PROVE  Current(x)' \subseteq Current(x)
  <2>1. digests[d] # None /\ digests[d] \in Digest
    BY <1>1, <1>2, SaveEffect
  <2>2. digests[d].version \in Nat /\ x.version \in Nat
    BY <1>1, <2>1, StateMigrationAssumption DEF Digest, Row
  <2>3. x.digest = d => x.version # digests[d].version + 1
    BY <1>1, <2>1, <2>2 DEF RowInOrder
  <2>4. PICK row : /\ digests' = [digests EXCEPT ![d] = row]
                   /\ row.version = digests[d].version + 1
                   /\ revisions' = revisions \cup
                        {[digest |-> d, version |-> row.version, state |-> row.state]}
    BY <1>2 DEF SaveDigest
  <2>5. digests \in [DigestIds -> Digest \cup {None}]
    BY <1>1 DEF TablesInOrder, TypeOK
  <2>6. QED
    BY <2>3, <2>4, <2>5 DEF Current
<1>3. ASSUME NEW u \in Users, NEW d \in DigestIds, DeleteDigest(u, d)
      PROVE  Current(x)' \subseteq Current(x)
  BY <1>1, <1>3, DropEffect DEF DeleteDigest
<1>4. ASSUME NEW u \in Users, DeleteUser(u)
      PROVE  Current(x)' \subseteq Current(x)
  <2>1. PICK ids \in SUBSET DigestIds : Drop(ids)
    BY <1>4 DEF DeleteUser
  <2>2. QED
    BY <1>1, <2>1, DropEffect
<1>5. QED
  BY <1>2, <1>3, <1>4 DEF ServerStep

LEMMA NextDerives ==
  ASSUME IInv, HeldDerives, [Next]_vars
  PROVE  HeldDerives'
<1>1. CASE UNCHANGED vars
  BY <1>1 DEF vars, HeldDerives, Held, Current, Derives
<1>2. CASE tool' = Off
  BY <1>2 DEF HeldDerives
<1>3. CASE Start
  BY <1>3 DEF Start, HeldDerives, Held
<1>4. CASE ServerStep
  <2>1. UNCHANGED tool
    BY <1>4 DEF ServerStep, SaveDigest, DeleteDigest, DeleteUser
  <2>2. CASE tool = Off
    BY <1>2, <2>1, <2>2
  <2>3. CASE tool # Off
    BY <1>4, <2>1, <2>3, CurrentShrinks, HeldKept DEF Held, HeldDerives
  <2>4. QED
    BY <2>2, <2>3
<1>5. CASE LoadExistingMedia
  <2>1. Held' = {}
    BY <1>5, RunningInv, RunningFields DEF LoadExistingMedia, HeldDerives, Held, Off
  <2>2. QED
    BY <2>1 DEF HeldDerives
<1>6. CASE ReadDigests
  <2>1. /\ tool # Off /\ tool \in Running /\ tool'.pc = "digests"
        /\ tool'.known = tool.known /\ Quiet
        /\ Held' \subseteq Held \cup DigestRows
    BY <1>6, RunningInv DEF ReadDigests, Off, Running, Held, tables, media, Quiet
  <2>2. \A x \in DigestRows : Current(x) \subseteq {x.state}
    BY DEF DigestRows, Current
  <2>3. QED
    BY <2>1, <2>2, QuietFrame DEF HeldDerives, Derives
<1>7. CASE ReadRevisions
  <2>1. /\ tool # Off /\ tool \in Running /\ tool'.pc = "revisions"
        /\ tool'.known = tool.known /\ Quiet
        /\ Held' \subseteq Held \cup RevisionRows
    BY <1>7, RunningInv DEF ReadRevisions, Off, Running, Held, tables, media, Quiet
  <2>2. KeysInOrder
    BY DEF IInv, TablesInOrder
  <2>3. \A x \in RevisionRows : Current(x) \subseteq {x.state}
    BY <2>2 DEF RevisionRows, Current, KeysInOrder
  <2>4. QED
    BY <2>1, <2>3, QuietFrame DEF HeldDerives, Derives
<1>8. CASE TakeRow \/ EndLoop \/ UpdateRow \/ LeaveRow
  <2>1. tool # Off /\ tool \in Running /\ tool.pc # "load" /\ Quiet
    <3>1. tool.pc \in {"digests", "revisions"} /\ Quiet
      BY <1>8 DEF TakeRow, EndLoop, UpdateRow, LeaveRow, tables, media, Quiet
    <3>2. tool # Off
      BY <3>1 DEF Off
    <3>3. QED
      BY <3>1, <3>2, RunningInv
  <2>2. tool'.known = tool.known /\ tool'.pc # "load" /\ Held' \subseteq Held
    <3>1. CASE TakeRow
      BY <2>1, <3>1 DEF TakeRow, Running, Held
    <3>2. CASE EndLoop
      BY <2>1, <3>2 DEF EndLoop, Running, Held
    <3>3. CASE UpdateRow
      BY <2>1, <3>3 DEF UpdateRow, Running, Held
    <3>4. CASE LeaveRow
      BY <2>1, <3>4 DEF LeaveRow, Running, Held
    <3>5. QED
      BY <1>8, <3>1, <3>2, <3>3, <3>4
  <2>3. QED
    BY <2>1, <2>2, QuietFrame, HeldKept
<1>9. ASSUME NEW p \in Places, WriteFile(p)
      PROVE  HeldDerives'
  <2>1. tool # Off /\ tool \in Running /\ tool.pc # "load"
    BY <1>9, RunningInv DEF WriteFile, AtImage, Off
  <2>2. /\ tool'.known = tool.known /\ tool'.pc # "load" /\ Held' = Held
        /\ UNCHANGED <<digests, revisions>>
    BY <1>9, <2>1 DEF WriteFile, AtImage, Running, Held, tables
  <2>3. QED
    BY <2>1, <2>2, HeldKept DEF Current
<1>10. ASSUME NEW p \in Places, NEW m \in MediaIds, tool # Off, tool' # Off, Quiet,
              tool.row # None, tool.row \in Row, tool.row.state.images[p].form = "inline",
              [id |-> m, content |-> tool.row.state.images[p].content] \in tool'.known,
              tool.known \subseteq tool'.known, tool'.pc # "load",
              tool'.row = Replaced(tool.row, p, m), tool'.pending = tool.pending,
              tool'.written = tool.written
       PROVE  HeldDerives'
  <2>1. PICK x : x = tool.row
    OBVIOUS
  <2>2. PICK y : y = Replaced(x, p, m)
    OBVIOUS
  <2>3. x \in Held /\ \A z \in Held' : z \in Held \/ z = y
    BY <1>10, <2>1, <2>2 DEF Held
  <2>4. /\ y.table = x.table /\ y.digest = x.digest /\ y.version = x.version
        /\ \A s \in Current(x) : Derives(s, y.state)'
    BY <1>10, <2>1, <2>2, <2>3, ReplaceDerives
  <2>5. Current(y)' = Current(x) /\ \A z : Current(z)' = Current(z)
    <3>1. \A z : Current(z)' = Current(z)
      BY <1>10, QuietFrame
    <3>2. Current(y) = Current(x)
      BY <2>4 DEF Current
    <3>3. QED
      BY <3>1, <3>2
  <2>6. \A z \in Held : \A s \in Current(z) : Derives(s, z.state)'
    BY <1>10 DEF HeldDerives, Derives
  <2>7. \A z \in Held' : \A s \in Current(z)' : Derives(s, z.state)'
    BY <2>3, <2>4, <2>5, <2>6
  <2>8. QED
    BY <1>10, <2>7 DEF HeldDerives
<1>11. ASSUME NEW p \in Places, ReuseMedia(p)
       PROVE  HeldDerives'
  <2>1. tool # Off /\ tool \in Running /\ tool.pc # "load" /\ tool.row # None /\ Quiet
    BY <1>11, RunningInv DEF ReuseMedia, AtImage, Off, tables, media, Quiet
  <2>2. PICK r \in Usable(tool.row.state.images[p].content) :
          tool' = [tool EXCEPT !.row = ReplacedBy(p, r.id), !.changed = TRUE]
    BY <1>11 DEF ReuseMedia
  <2>3. r \in tool.known /\ r \in Ref /\ r.content = tool.row.state.images[p].content
    BY <2>1, <2>2, RunningFields DEF Usable
  <2>4. r.id \in MediaIds /\ r = [id |-> r.id, content |-> r.content]
    BY <2>3 DEF Ref
  <2>5. /\ tool'.known = tool.known /\ tool'.pc = tool.pc /\ tool' # Off
        /\ tool'.pending = tool.pending /\ tool'.written = tool.written
        /\ tool'.row = Replaced(tool.row, p, r.id)
    BY <2>1, <2>2 DEF Running, Off, ReplacedBy, Replaced
  <2>6. tool.row \in Row /\ tool.row.state.images[p].form = "inline"
    BY <1>11, <2>1, RunningFields DEF ReuseMedia
  <2>7. QED
    BY <1>10, <2>1, <2>3, <2>4, <2>5, <2>6
<1>12. CASE InsertMedia
  <2> DEFINE p == tool.place
             c == tool.row.state.images[p].content
  <2>1. /\ tool # Off /\ tool \in Running /\ tool.pc # "load" /\ Quiet
        /\ tool.place # None /\ FileInHand
    BY <1>12, RunningInv DEF InsertMedia, Off, tables, media, Quiet
  <2>2. /\ tool.row # None /\ tool.row \in Row /\ tool.id \in MediaIds /\ p \in Places
        /\ tool.row.state.images[p].form = "inline"
    BY <2>1, RunningFields DEF FileInHand
  <2>3. /\ tool'.known = tool.known \cup {[id |-> tool.id, content |-> c]}
        /\ tool'.pc = tool.pc /\ tool' # Off
        /\ tool'.pending = tool.pending /\ tool'.written = tool.written
        /\ tool'.row = Replaced(tool.row, p, tool.id)
    BY <1>12, <2>1 DEF InsertMedia, Running, Off, ReplacedBy, Replaced
  <2>4. QED
    BY <1>10, <2>1, <2>2, <2>3
<1>13. CASE Commit \/ Fail \/ InsertFails
  BY <1>2, <1>13 DEF Commit, Fail, InsertFails
<1>14. QED
  BY <1>1, <1>3, <1>4, <1>5, <1>6, <1>7, <1>8, <1>9, <1>11, <1>12, <1>13
  DEF Next, ToolStep

LEMMA DerivesInvariance == Spec => [](IInv /\ HeldDerives)
<1>1. Init => HeldDerives
  BY DEF Init, HeldDerives
<1>2. IInv /\ HeldDerives /\ [Next]_vars => HeldDerives'
  BY NextDerives
<1>3. QED
  BY <1>1, <1>2, Invariance, PTL DEF Spec

(* What the commit writes shows what the row it was read from shows.        *)
LEMMA WrittenKeeps ==
  ASSUME IInv, HeldDerives, Commit, NEW w \in tool.written, NEW s \in Current(w)
  PROVE  ShowsAsBefore(s, w.state)
<1>1. /\ tool # Off /\ w.state \in State /\ RowInOrder(w) /\ Derives(s, w.state)
  BY AtCommit DEF HeldDerives
<1>2. s \in Committed /\ s \in State /\ [Next]_vars
  <2>1. s \in Committed /\ [Next]_vars
    BY AtCommit DEF Current, Committed, Next, ToolStep
  <2>2. QED
    BY <2>1, CommittedFiles
<1>3. UNCHANGED <<users, files, minted>>
  BY DEF Commit
<1>4. ASSUME NEW p \in Places
      PROVE  Keeps(s.images[p], w.state.images[p])
  <2> DEFINE i == s.images[p]
             j == w.state.images[p]
  <2>1. CASE j = i
    BY <1>2, <2>1, ImageKept
  <2>2. CASE /\ i.form = "inline" /\ j.form = "media"
             /\ [id |-> j.id, content |-> i.content] \in tool.known
    <3>1. j.id \in MediaIds /\ j.id \in Refs(w.state)
      BY <1>1, <2>2, StateFields, ImageForms DEF Refs
    <3>2. Good(j.id)'
      BY <1>1, <3>1, CommitMedia DEF RowInOrder
    <3>3. files'[j.id] = i.content
      <4>1. Means(w.state) = Means(s)
        BY <1>1 DEF RowInOrder
      <4>2. Means(w.state).images[p] = files[j.id] /\ Means(s).images[p] = i.content
        BY <2>2 DEF Means, Meaning, PlainMeaning
      <4>3. QED
        BY <1>3, <4>1, <4>2
    <3>4. CASE minted[j.id] \notin users
      BY <2>2, <3>3, <3>4 DEF Keeps
    <3>5. CASE rows'[j.id] # None
      BY <2>2, <3>3, <3>5 DEF Keeps, Served, PlainMeaning
    <3>6. QED
      BY <1>3, <3>2, <3>4, <3>5 DEF Good
  <2>3. QED
    BY <1>1, <2>1, <2>2 DEF Derives
<1>5. QED
  BY <1>1, <1>4 DEF Derives, ShowsAsBefore

(* The key of a new revision is new: a revision under an old key is the old  *)
(* one, or what the commit has made of it.                                   *)
LEMMA SameRevision ==
  ASSUME IInv, [Next]_vars, NEW x \in revisions, NEW y \in revisions',
         x.digest = y.digest, x.version = y.version
  PROVE  x = y \/ (Commit /\ y.state = NewState(x))
<1>1. TablesInOrder /\ KeysInOrder
  BY DEF IInv, TablesInOrder
<1>2. CASE revisions' \subseteq revisions
  BY <1>1, <1>2 DEF KeysInOrder
<1>3. CASE Commit
  <2>1. PICK z \in revisions : y = [z EXCEPT !.state = NewState(z)]
    BY <1>3 DEF Commit
  <2>2. z \in Revision
    BY <1>1 DEF TablesInOrder, TypeOK
  <2>3. y.digest = z.digest /\ y.version = z.version /\ y.state = NewState(z)
    BY <2>1, <2>2 DEF Revision
  <2>4. x = z
    BY <1>1, <2>3 DEF KeysInOrder
  <2>5. QED
    BY <1>3, <2>3, <2>4
<1>4. ASSUME NEW u \in Users, NEW d \in DigestIds, SaveDigest(u, d)
      PROVE  x = y
  <2>1. /\ digests[d].version \in Nat
        /\ \A z \in revisions' \ revisions : /\ z.digest = d
                                             /\ z.version = digests[d].version + 1
    BY <1>1, <1>4, SaveEffect, StateMigrationAssumption DEF Digest
  <2>2. y \in revisions
    BY <1>1, <2>1, StateMigrationAssumption DEF TablesInOrder, TypeOK, KeysInOrder, Revision
  <2>3. QED
    BY <1>1, <2>2 DEF KeysInOrder
<1>5. \/ revisions' \subseteq revisions \/ Commit
      \/ \E u \in Users, d \in DigestIds : SaveDigest(u, d)
  BY StepKinds DEF tables, ServerStep, DeleteDigest, DeleteUser, Drop
<1>6. QED
  BY <1>2, <1>3, <1>4, <1>5

LEMMA RevisionsStep ==
  ASSUME IInv, HeldDerives, [Next]_vars, NEW x \in revisions, NEW y \in revisions',
         x.digest = y.digest, x.version = y.version
  PROVE  ShowsAsBefore(x.state, y.state)
<1>1. x.state \in Committed /\ ShowsAsBefore(x.state, x.state)
  BY CommittedKeeps DEF Committed
<1>2. CASE Commit /\ y.state = NewState(x)
  <2>1. ASSUME NEW w \in WrittenTo("revisions", x.digest),
               w.version = x.version, NewState(x) = w.state
        PROVE  ShowsAsBefore(x.state, y.state)
    <3>1. w \in tool.written /\ x.state \in Current(w)
      BY <2>1 DEF WrittenTo, Current
    <3>2. QED
      BY <1>2, <2>1, <3>1, WrittenKeeps
  <2>2. QED
    BY <1>1, <1>2, <2>1, CommitRevisions
<1>3. QED
  BY <1>1, <1>2, SameRevision

(* Under an unchanged version only the commit changes what a digest shows,  *)
(* and then only by a row it had read before the latest save.               *)
LEMMA DigestsStep ==
  ASSUME IInv, HeldDerives, [Next]_vars, NEW d \in DigestIds,
         digests[d] # None, digests'[d] # None,
         digests[d].version = digests'[d].version
  PROVE  \/ ShowsAsBefore(digests[d].state, digests'[d].state)
         \/ \E x \in WrittenTo("digests", d) : x.version < digests[d].version
<1>1. /\ TablesInOrder /\ digests[d] \in Digest
      /\ ShowsAsBefore(digests[d].state, digests[d].state)
  BY CommittedKeeps DEF IInv, TablesInOrder, TypeOK, Committed
<1>2. CASE digests'[d] = digests[d]
  BY <1>1, <1>2
<1>3. ASSUME Commit, NEW w \in WrittenTo("digests", d),
             digests'[d] = [digests[d] EXCEPT !.state = w.state]
      PROVE  \/ ShowsAsBefore(digests[d].state, digests'[d].state)
             \/ w.version < digests[d].version
  <2>1. w \in tool.written /\ w \in Row /\ RowInOrder(w) /\ w.digest = d /\ w.table = "digests"
    BY <1>3, AtCommit DEF WrittenTo
  <2>2. w.version <= digests[d].version /\ w.version \in Nat /\ digests[d].version \in Nat
    BY <1>1, <2>1, StateMigrationAssumption DEF RowInOrder, Row, Digest
  <2>3. CASE w.version = digests[d].version
    <3>1. digests[d].state \in Current(w)
      BY <2>1, <2>3 DEF Current
    <3>2. digests'[d].state = w.state
      BY <1>1, <1>3 DEF Digest
    <3>3. QED
      BY <1>3, <2>1, <3>1, <3>2, WrittenKeeps
  <2>4. QED
    BY <2>2, <2>3
<1>4. ASSUME NEW u \in Users, NEW e \in DigestIds, SaveDigest(u, e)
      PROVE  digests'[d] = digests[d]
  <2>1. \E row : /\ digests' = [digests EXCEPT ![e] = row]
                 /\ row.version = digests[e].version + 1
    BY <1>4 DEF SaveDigest
  <2>2. digests[e] \in Digest /\ digests[e].version + 1 # digests[e].version
    <3>1. digests[e] \in Digest
      BY <1>1, <1>4, SaveEffect
    <3>2. digests[e].version \in Nat
      BY <3>1, StateMigrationAssumption DEF Digest
    <3>3. QED
      BY <3>1, <3>2
  <2>3. digests \in [DigestIds -> Digest \cup {None}]
    BY <1>1 DEF TablesInOrder, TypeOK
  <2>4. e # d
    BY <2>1, <2>2, <2>3
  <2>5. QED
    BY <2>1, <2>3, <2>4
<1>5. \/ digests'[d] = digests[d] \/ Commit
      \/ \E u \in Users, e \in DigestIds : SaveDigest(u, e)
  BY StepKinds DEF tables, ServerStep, DeleteDigest, DeleteUser, Drop
<1>6. QED
  BY <1>2, <1>3, <1>4, <1>5, CommitDigests

(* A revision shows the same to its readers as long as it exists: whichever  *)
(* steps fail or are repeated, and whatever requests run beside the command, *)
(* no image is replaced by another; it may only go with an account.          *)
THEOREM RevisionsShowTheSame == Spec => RevisionsKeepShowing
<1>1. IInv /\ HeldDerives /\ [Next]_vars =>
        [\A x \in revisions, y \in revisions' :
           x.digest = y.digest /\ x.version = y.version =>
             ShowsAsBefore(x.state, y.state)]_vars
  BY RevisionsStep
<1>2. QED
  BY <1>1, DerivesInvariance, PTL DEF Spec, RevisionsKeepShowing

(* The lost update the command can cause beside a running server is the only *)
(* one: but for images that go with an account, a digest changes for its     *)
(* readers without a save only if it was saved after the command had read it. *)
THEOREM OnlyLaterSavesAreUndone == Spec => OnlyLaterSavesUndone
<1>1. IInv /\ HeldDerives /\ [Next]_vars =>
        [\A d \in DigestIds :
           /\ digests[d] # None /\ digests'[d] # None
           /\ digests[d].version = digests'[d].version
           /\ ~ShowsAsBefore(digests[d].state, digests'[d].state)
           => \E x \in WrittenTo("digests", d) : x.version < digests[d].version]_vars
  BY DigestsStep
<1>2. QED
  BY <1>1, DerivesInvariance, PTL DEF Spec, OnlyLaterSavesUndone

(***************************************************************************)
(* With the server stopped while the command runs: the contract of module  *)
(* DigestStore over what states mean.                                      *)
(***************************************************************************)
SeenDigest(d) ==
  IF digests[d] = None THEN None ELSE Seen(digests[d], Means(digests[d].state))
SeenState(s)    == [edit |-> Means(s), images |-> "none"]
SeenRevision(x) == [digest |-> x.digest, version |-> x.version, state |-> SeenState(x.state)]

SeenDigests   == [d \in DigestIds |-> SeenDigest(d)]
SeenRevisions == {SeenRevision(x) : x \in revisions}

(* No state means what no client sent.                                      *)
StoreEdits   == {PlainMeans(s) : s \in Sent \cup {g.state : g \in Legacy}}
EditsInOrder == \A s \in Committed : Means(s) \in StoreEdits

LEMMA SeenFields ==
  ASSUME NEW g \in Digest, NEW view \in StoreEdits
  PROVE  /\ Seen(g, view) \in Store!Digest /\ Seen(g, view) # None
         /\ Seen(g, view).owner = g.owner /\ Seen(g, view).version = g.version
         /\ Seen(g, view).type = "analytical"
<1>1. g.owner \in Users /\ g.version \in Nat \ {0}
  BY StateMigrationAssumption DEF Digest
<1>2. Seen(g, view) \in Store!Digest
  BY <1>1 DEF Seen, StoreEdits, Store!Digest, Store!State
<1>3. QED
  BY <1>2, StoreAssumption DEF Seen

LEMMA PlainShows ==
  ASSUME NEW s, s.images \in [Places -> PlainImages]
  PROVE  Means(s) = PlainMeans(s)
<1>1. \A i \in PlainImages : i.form # "media"
  BY DEF PlainImages, NoImage, Broken, Foreign, Inline
<1>2. QED
  BY <1>1 DEF Means, PlainMeans, Meaning

LEMMA InitSeen ==
  ASSUME Init
  PROVE  Store!Init /\ EditsInOrder
<1>1. ASSUME NEW d \in DigestIds, digests[d] # None
      PROVE  /\ digests[d] \in Legacy /\ digests[d] \in Digest
             /\ Means(digests[d].state) = PlainMeans(digests[d].state)
             /\ Means(digests[d].state) \in StoreEdits
  BY <1>1, StateMigrationAssumption, PlainShows DEF Init, StoreEdits
<1>2. \A x \in revisions : /\ x.digest \in DigestIds /\ digests[x.digest] # None
                           /\ x.state = digests[x.digest].state
  BY DEF Init
<1>3. EditsInOrder
  BY <1>1, <1>2 DEF EditsInOrder, Committed
<1>4. \A d \in DigestIds : digests[d] # None <=> SeenDigest(d) # None
  BY <1>1, SeenFields DEF SeenDigest
<1>5. SeenDigests \in
        [DigestIds -> {Seen(g, PlainMeans(g.state)) : g \in Legacy} \cup {None}]
  BY <1>1 DEF SeenDigests, SeenDigest
<1>6. SeenRevisions = {[digest |-> d, version |-> 1, state |-> SeenDigest(d).state] : d \in issued}
  <2>1. issued = {d \in DigestIds : digests[d] # None}
    BY DEF Init
  <2>2. \A d \in issued : SeenDigest(d).state = SeenState(digests[d].state)
    BY <2>1 DEF SeenDigest, Seen, SeenState
  <2>3. revisions = {[digest |-> d, version |-> 1, state |-> digests[d].state] : d \in issued}
    BY DEF Init
  <2>4. ASSUME NEW d \in issued
        PROVE  SeenRevision([digest |-> d, version |-> 1, state |-> digests[d].state])
                 = [digest |-> d, version |-> 1, state |-> SeenDigest(d).state]
    BY <2>2 DEF SeenRevision
  <2>5. \A v : v \in SeenRevisions <=>
          \E d \in issued :
            v = SeenRevision([digest |-> d, version |-> 1, state |-> digests[d].state])
    BY <2>3 DEF SeenRevisions
  <2>6. \A v : v \in SeenRevisions <=>
          \E d \in issued :
            v = [digest |-> d, version |-> 1, state |-> SeenDigest(d).state]
    BY <2>4, <2>5
  <2>7. QED
    BY <2>6
<1>7. issued = {d \in DigestIds : SeenDigests[d] # None} /\ users = Users
  BY <1>4 DEF Init, SeenDigests
<1>8. SeenRevisions =
        {[digest |-> d, version |-> 1, state |-> SeenDigests[d].state] : d \in issued}
  BY <1>6, <1>7 DEF SeenDigests
<1>9. Store!Init
  BY <1>5, <1>7, <1>8
  DEF Store!Init, Store!FirstRevisions, SeenDigests, SeenDigest, SeenRevisions,
      SeenRevision, SeenState
<1>10. QED
  BY <1>3, <1>9

LEMMA SeenStutter ==
  ASSUME SeenDigests' = SeenDigests, SeenRevisions' = SeenRevisions,
         UNCHANGED <<users, issued>>
  PROVE  UNCHANGED Store!vars
BY DEF Store!vars, SeenDigests, SeenDigest, SeenRevisions, SeenRevision, SeenState

(* Rows that a step leaves alone mean what they meant.                     *)
LEMMA SeenKept ==
  ASSUME IInv, [Next]_vars
  PROVE  /\ \A d \in DigestIds : digests'[d] = digests[d] => SeenDigests'[d] = SeenDigests[d]
         /\ \A x \in revisions : SeenRevision(x)' = SeenRevision(x)
<1>1. ASSUME NEW d \in DigestIds, digests'[d] = digests[d]
      PROVE  SeenDigests'[d] = SeenDigests[d]
  <2>1. CASE digests[d] = None
    BY <1>1, <2>1 DEF SeenDigests, SeenDigest
  <2>2. CASE digests[d] # None
    <3>1. PICK s \in Committed : s = digests[d].state
      BY <2>2 DEF Committed
    <3>2. Means(s)' = Means(s)
      BY CommittedShows
    <3>3. Means(digests[d].state)' = Means(digests[d].state)
      BY <1>1, <3>1, <3>2 DEF Means
    <3>4. QED
      BY <1>1, <2>2, <3>3 DEF SeenDigests, SeenDigest, Seen
  <2>3. QED
    BY <2>1, <2>2
<1>2. \A x \in revisions : SeenRevision(x)' = SeenRevision(x)
  BY CommittedShows DEF SeenRevision, SeenState, Committed
<1>3. QED
  BY <1>1, <1>2

LEMMA StillSeen ==
  ASSUME IInv, [Next]_vars, UNCHANGED tables
  PROVE  UNCHANGED Store!vars
<1>1. SeenDigests' = SeenDigests /\ SeenRevisions' = SeenRevisions
  BY SeenKept DEF SeenDigests, SeenRevisions, tables
<1>2. QED
  BY <1>1, SeenStutter DEF tables

LEMMA CommitUnseen ==
  ASSUME IInv, Commit, ~Serving
  PROVE  UNCHANGED Store!vars
<1>1. /\ revisions' = {[x EXCEPT !.state = NewState(x)] : x \in revisions}
      /\ UNCHANGED <<users, issued>> /\ [Next]_vars
      /\ revisions \subseteq Revision
  BY DEF Commit, Next, ToolStep, IInv, TablesInOrder, TypeOK
<1>2. ASSUME NEW d \in DigestIds PROVE SeenDigests'[d] = SeenDigests[d]
  <2>1. ASSUME NEW w \in WrittenTo("digests", d), digests[d] # None,
               digests'[d] = [digests[d] EXCEPT !.state = w.state]
        PROVE  SeenDigests'[d] = SeenDigests[d]
    <3>1. w \in tool.written /\ RowInOrder(w) /\ w.digest = d /\ w.table = "digests"
          /\ w.state \in State
      BY AtCommit DEF WrittenTo
    <3>2. Current(w) # {}
      BY <3>1 DEF RowInOrder
    <3>3. digests[d].state \in Current(w)
      BY <3>1, <3>2 DEF Current
    <3>4. Means(w.state)' = Means(digests[d].state)
      BY <3>1, <3>3, WrittenShows
    <3>5. digests[d] \in Digest
      BY <2>1 DEF IInv, TablesInOrder, TypeOK
    <3>6. /\ digests'[d].owner = digests[d].owner /\ digests'[d].state = w.state
          /\ digests'[d].version = digests[d].version /\ digests'[d] # None
      <4>1. digests'[d] \in Digest
        BY <2>1, <3>1, <3>5 DEF Digest
      <4>2. QED
        BY <2>1, <3>5, <4>1, StateMigrationAssumption DEF Digest
    <3>7. Means(digests[d].state)' = Means(digests[d].state)
      BY <3>4, <3>6 DEF Means
    <3>8. QED
      BY <2>1, <3>6, <3>7 DEF SeenDigests, SeenDigest, Seen
  <2>2. QED
    BY <1>1, <2>1, CommitDigests, SeenKept
<1>3. SeenDigests' = SeenDigests
  BY <1>2 DEF SeenDigests
<1>4. ASSUME NEW x \in revisions, NEW y, y = [x EXCEPT !.state = NewState(x)]
      PROVE  SeenRevision(y)' = SeenRevision(x)
  <2>1. PICK s : s = NewState(x)
    OBVIOUS
  <2>2. y.digest = x.digest /\ y.version = x.version /\ y.state = s
    BY <1>1, <1>4, <2>1 DEF Revision
  <2>3. Means(s)' = Means(x.state)
    BY <2>1, CommitKeepsRevisions
  <2>4. QED
    BY <2>2, <2>3 DEF SeenRevision, SeenState
<1>5. SeenRevisions' = SeenRevisions
  <2>1. SeenRevisions' = {SeenRevision(y)' : y \in revisions'}
    BY DEF SeenRevisions
  <2>2. \A v : v \in SeenRevisions' <=> \E x \in revisions : v = SeenRevision(x)
    BY <1>1, <1>4, <2>1
  <2>3. QED
    BY <2>2 DEF SeenRevisions
<1>6. QED
  BY <1>1, <1>3, <1>5, SeenStutter

(* The server's requests are those of the contract.                        *)
LEMMA SaveSeen ==
  ASSUME IInv, EditsInOrder, NEW u \in Users, NEW d \in DigestIds, SaveDigest(u, d)
  PROVE  Store!Next /\ EditsInOrder'
<1>1. /\ TablesInOrder /\ [Next]_vars /\ UNCHANGED <<users, issued>>
      /\ digests[d].version < MaxVersion
  BY DEF IInv, Next, ServerStep, SaveDigest
<1>2. digests[d] # None /\ digests[d] \in Digest /\ digests[d].owner = u
  BY <1>1, SaveEffect
<1>3. PICK s \in Sent \cup {x.state : x \in {y \in revisions : y.digest = d}} :
        \E saved \in State :
          /\ s \in State /\ Matches(saved) = {}
          /\ \A m \in Refs(saved) : Good(m)' /\ (m \in Refs(s) \/ rows'[m] # None)
          /\ \A m \in Refs(s) : Good(m)
          /\ s \in Sent => Refs(s) = {} /\ Means(s) = PlainMeans(s)
          /\ Means(saved)' = Means(s)
          /\ [owner |-> u, version |-> digests[d].version + 1, state |-> saved] \in Digest
          /\ digests' = [digests EXCEPT ![d] =
               [owner |-> u, version |-> digests[d].version + 1, state |-> saved]]
          /\ revisions' = revisions \cup
               {[digest |-> d, version |-> digests[d].version + 1, state |-> saved]}
  BY <1>1, SaveEffect
<1>4. PICK saved \in State :
        /\ Means(saved)' = Means(s)
        /\ [owner |-> u, version |-> digests[d].version + 1, state |-> saved] \in Digest
        /\ digests' = [digests EXCEPT ![d] =
             [owner |-> u, version |-> digests[d].version + 1, state |-> saved]]
        /\ revisions' = revisions \cup
             {[digest |-> d, version |-> digests[d].version + 1, state |-> saved]}
  BY <1>3
<1>5. PICK version : version = digests[d].version + 1
  OBVIOUS
<1>6. PICK seen : seen = [owner |-> u, title |-> "title", type |-> "analytical",
                          version |-> version, state |-> SeenState(s)]
  OBVIOUS
<1> DEFINE row   == [owner |-> u, version |-> version, state |-> saved]
           entry == [digest |-> d, version |-> version, state |-> saved]
<1>7. Means(s) \in StoreEdits
  BY <1>3 DEF StoreEdits, EditsInOrder, Committed
<1>8. /\ digests \in [DigestIds -> Digest \cup {None}]
      /\ digests'[d] = row /\ digests'[d] # None
      /\ \A e \in DigestIds : e # d => digests'[e] = digests[e]
      /\ revisions' = revisions \cup {entry}
  BY <1>1, <1>4, <1>5, StateMigrationAssumption DEF TablesInOrder, TypeOK
<1>9. SeenState(saved)' = SeenState(s)
  BY <1>4 DEF SeenState
<1>10. SeenDigests' = [SeenDigests EXCEPT ![d] = seen]
  <2>1. SeenDigests'[d] = seen
    <3>1. Means(digests[d].state)' = Means(s)
      BY <1>4, <1>8 DEF Means
    <3>2. QED
      BY <1>6, <1>8, <3>1 DEF SeenDigests, SeenDigest, Seen, SeenState
  <2>2. \A e \in DigestIds : e # d => SeenDigests'[e] = SeenDigests[e]
    BY <1>1, <1>8, SeenKept
  <2>3. QED
    BY <2>1, <2>2 DEF SeenDigests
<1>11. SeenRevisions' = SeenRevisions \cup
         {[digest |-> d, version |-> version, state |-> SeenState(s)]}
  <2>1. SeenRevision(entry)' = [digest |-> d, version |-> version, state |-> SeenState(s)]
    BY <1>9 DEF SeenRevision
  <2>2. \A x \in revisions : SeenRevision(x)' = SeenRevision(x)
    BY <1>1, SeenKept
  <2>3. \A v : v \in SeenRevisions' <=>
                 \/ \E x \in revisions : v = SeenRevision(x)'
                 \/ v = SeenRevision(entry)'
    BY <1>8 DEF SeenRevisions
  <2>4. \A v : v \in SeenRevisions <=> \E x \in revisions : v = SeenRevision(x)
    BY DEF SeenRevisions
  <2>5. QED
    BY <2>1, <2>2, <2>3, <2>4
<1>12. EditsInOrder'
  <2>1. \A q \in Committed' : q \in Committed \/ q = saved
    BY <1>8 DEF Committed
  <2>2. \A q \in Committed : Means(q)' \in StoreEdits
    BY <1>1, CommittedShows DEF EditsInOrder
  <2>3. Means(saved)' \in StoreEdits
    BY <1>4, <1>7
  <2>4. QED
    BY <2>1, <2>2, <2>3 DEF EditsInOrder
<1>13. /\ SeenDigests[d] # None /\ SeenDigests[d].owner = u
       /\ SeenDigests[d].version = digests[d].version
       /\ SeenDigests[d].type = "analytical"
  <2>1. SeenDigests[d] = Seen(digests[d], Means(digests[d].state))
    BY <1>2 DEF SeenDigests, SeenDigest
  <2>2. Means(digests[d].state) \in StoreEdits
    BY <1>2 DEF EditsInOrder, Committed
  <2>3. QED
    BY <1>2, <2>1, <2>2, SeenFields
<1>14. PICK state : state = SeenState(s)
  OBVIOUS
<1>15. Store!SavedDigest(SeenDigests[d], "title", "analytical", state) = seen
  BY <1>5, <1>6, <1>13, <1>14 DEF Store!SavedDigest, Store!KeptType, Store!Bump
<1>16. Store!AutosaveDigest(u, d, "title", "analytical", state)
  <2>1. Store!Owned(u, d)
    BY <1>13 DEF Store!Owned, SeenDigests, SeenDigest
  <2>2. Store!AcceptsType("analytical")
    BY DEF Store!AcceptsType
  <2>3. seen.version = version
    BY <1>6
  <2>4. QED
    BY <1>1, <1>10, <1>11, <1>13, <1>14, <1>15, <2>1, <2>2, <2>3
    DEF Store!AutosaveDigest, SeenDigests, SeenDigest, SeenRevisions, SeenRevision, SeenState
<1>17. state \in Store!State
  BY <1>7, <1>14 DEF SeenState, Store!State, StoreEdits
<1>18. Store!Next
  <2>1. \E title \in {"title"}, type \in {"analytical"} \cup {"", "unknown"},
           q \in Store!State : Store!AutosaveDigest(u, d, title, type, q)
    BY <1>16, <1>17
  <2>2. QED
    BY <2>1 DEF Store!Next
<1>19. QED
  BY <1>12, <1>18

LEMMA DropSeen ==
  ASSUME IInv, EditsInOrder, [Next]_vars, NEW ids \in SUBSET DigestIds, Drop(ids)
  PROVE  Store!Drop(ids) /\ EditsInOrder'
<1>1. TablesInOrder
  BY DEF IInv
<1>2. /\ digests' = [d \in DigestIds |-> IF d \in ids THEN None ELSE digests[d]]
      /\ revisions' = {x \in revisions : x.digest \notin ids}
  BY DEF Drop
<1>3. SeenDigests' = [d \in DigestIds |-> IF d \in ids THEN None ELSE SeenDigests[d]]
  <2>1. \A d \in DigestIds : d \in ids => SeenDigests'[d] = None
    BY <1>2 DEF SeenDigests, SeenDigest
  <2>2. \A d \in DigestIds : d \notin ids => SeenDigests'[d] = SeenDigests[d]
    BY <1>2, SeenKept
  <2>3. QED
    BY <2>1, <2>2 DEF SeenDigests
<1>4. SeenRevisions' = {x \in SeenRevisions : x.digest \notin ids}
  <2>1. \A x \in revisions : SeenRevision(x)' = SeenRevision(x)
    BY SeenKept
  <2>2. \A x : SeenRevision(x).digest = x.digest
    BY DEF SeenRevision
  <2>3. \A v : v \in SeenRevisions' <=>
                 \E x \in revisions : x.digest \notin ids /\ v = SeenRevision(x)'
    BY <1>2 DEF SeenRevisions
  <2>4. \A v : v \in SeenRevisions <=> \E x \in revisions : v = SeenRevision(x)
    BY DEF SeenRevisions
  <2>5. QED
    BY <2>1, <2>2, <2>3, <2>4
<1>5. Store!Drop(ids)
  BY <1>3, <1>4 DEF Store!Drop, SeenDigests, SeenDigest, SeenRevisions, SeenRevision, SeenState
<1>6. EditsInOrder'
  <2>1. Committed' \subseteq Committed
    BY <1>1, DropEffect
  <2>2. QED
    BY <2>1, CommittedShows DEF EditsInOrder
<1>7. QED
  BY <1>5, <1>6

LEMMA OwnedSeen ==
  ASSUME IInv, EditsInOrder, NEW u \in Users, NEW d \in DigestIds
  PROVE  Store!Owned(u, d) <=> Owned(u, d)
<1>1. CASE digests[d] = None
  BY <1>1 DEF Store!Owned, Owned
<1>2. CASE digests[d] # None
  <2>1. digests[d] \in Digest /\ Means(digests[d].state) \in StoreEdits
    BY <1>2 DEF IInv, TablesInOrder, TypeOK, EditsInOrder, Committed
  <2>2. PICK v : v = Seen(digests[d], Means(digests[d].state))
    OBVIOUS
  <2>3. v # None /\ v.owner = digests[d].owner
    BY <2>1, <2>2, SeenFields
  <2>4. Store!Owned(u, d) <=> v # None /\ v.owner = u
    BY <1>2, <2>2 DEF Store!Owned
  <2>5. QED
    BY <1>2, <2>3, <2>4 DEF Owned
<1>3. QED
  BY <1>1, <1>2

LEMMA CommitEdits ==
  ASSUME IInv, EditsInOrder, Commit, ~Serving
  PROVE  EditsInOrder'
<1>1. ASSUME NEW d \in DigestIds, digests'[d] # None, NEW s, s = digests'[d].state
      PROVE  Means(s)' \in StoreEdits
  <2>1. digests[d] # None
    BY <1>1, CommitDigests
  <2>2. digests[d] \in Digest /\ digests[d].state \in Committed
    BY <2>1 DEF IInv, TablesInOrder, TypeOK, Committed
  <2>3. CASE digests'[d] = digests[d]
    BY <1>1, <2>2, <2>3, WrittenShows DEF EditsInOrder
  <2>4. ASSUME NEW w \in WrittenTo("digests", d),
               digests'[d] = [digests[d] EXCEPT !.state = w.state]
        PROVE  Means(s)' \in StoreEdits
    <3>1. w \in tool.written /\ RowInOrder(w) /\ w.digest = d /\ w.table = "digests"
      BY AtCommit DEF WrittenTo
    <3>2. Current(w) # {}
      BY <3>1 DEF RowInOrder
    <3>3. digests[d].state \in Current(w)
      BY <3>1, <3>2 DEF Current
    <3>4. s = w.state
      BY <1>1, <2>2, <2>4 DEF Digest
    <3>5. Means(s)' = Means(digests[d].state)
      BY <3>1, <3>3, <3>4, WrittenShows
    <3>6. QED
      BY <2>2, <3>5 DEF EditsInOrder
  <2>5. QED
    BY <2>3, <2>4, CommitDigests
<1>2. ASSUME NEW y \in revisions', NEW s, s = y.state
      PROVE  Means(s)' \in StoreEdits
  <2>1. PICK x \in revisions : y = [x EXCEPT !.state = NewState(x)]
    BY DEF Commit
  <2>2. x \in Revision /\ x.state \in Committed
    BY DEF IInv, TablesInOrder, TypeOK, Committed
  <2>3. s = NewState(x)
    BY <1>2, <2>1, <2>2 DEF Revision
  <2>4. Means(s)' = Means(x.state)
    BY <2>3, CommitKeepsRevisions
  <2>5. QED
    BY <2>2, <2>4 DEF EditsInOrder
<1>3. \A s \in Committed' : \/ \E d \in DigestIds : digests'[d] # None /\ s = digests'[d].state
                            \/ \E y \in revisions' : s = y.state
  BY DEF Committed
<1>4. QED
  BY <1>1, <1>2, <1>3 DEF EditsInOrder

(* While the server is stopped when the command runs, what the states mean  *)
(* follows the contract of the digest store: the command's steps, failures  *)
(* and retries, its commit included, make no difference to it.              *)
THEOREM OfflineImplementsStore ==
  ASSUME ~Serving
  PROVE  Spec => ImplementsStore
<1>1. Init => Store!Init /\ EditsInOrder
  BY InitSeen
<1>2. ASSUME IInv, EditsInOrder, [Next]_vars
      PROVE  [Store!Next]_(Store!vars) /\ EditsInOrder'
  <2>1. CASE UNCHANGED tables
    <3>1. Committed' = Committed
      BY <2>1 DEF tables, Committed
    <3>2. EditsInOrder'
      BY <1>2, <3>1, CommittedShows DEF EditsInOrder
    <3>3. QED
      BY <1>2, <2>1, <3>2, StillSeen
  <2>2. CASE Commit
    BY <1>2, <2>2, CommitUnseen, CommitEdits
  <2>3. ASSUME NEW u \in Users, NEW d \in DigestIds, SaveDigest(u, d)
        PROVE  Store!Next /\ EditsInOrder'
    BY <1>2, <2>3, SaveSeen
  <2>4. ASSUME NEW u \in Users, NEW d \in DigestIds, DeleteDigest(u, d)
        PROVE  Store!Next /\ EditsInOrder'
    <3>1. Owned(u, d) /\ Drop({d}) /\ UNCHANGED <<users, issued>> /\ {d} \in SUBSET DigestIds
      BY <2>4 DEF DeleteDigest
    <3>2. Store!Drop({d}) /\ EditsInOrder'
      BY <1>2, <3>1, DropSeen
    <3>3. Store!DeleteDigest(u, d)
      BY <1>2, <3>1, <3>2, OwnedSeen DEF Store!DeleteDigest
    <3>4. QED
      BY <3>2, <3>3 DEF Store!Next
  <2>5. ASSUME NEW u \in Users, DeleteUser(u)
        PROVE  Store!Next /\ EditsInOrder'
    <3>0. PICK ids : ids = {d \in DigestIds : Owned(u, d)}
      OBVIOUS
    <3>1. /\ u \in users /\ users' = users \ {u} /\ UNCHANGED issued /\ Drop(ids)
          /\ ids \in SUBSET DigestIds
      BY <2>5, <3>0 DEF DeleteUser
    <3>2. Store!Drop(ids) /\ EditsInOrder'
      BY <1>2, <3>1, DropSeen
    <3>3. {d \in DigestIds : Store!Owned(u, d)} = ids
      BY <1>2, <3>0, OwnedSeen
    <3>4. Store!DeleteUser(u)
      BY <3>1, <3>2, <3>3 DEF Store!DeleteUser, Store!Drop
    <3>5. QED
      BY <3>2, <3>4 DEF Store!Next
  <2>6. QED
    BY <1>2, <2>1, <2>2, <2>3, <2>4, <2>5, StepKinds DEF ServerStep
<1>3. IInv /\ EditsInOrder /\ [Next]_vars => [Store!Next]_(Store!vars) /\ EditsInOrder'
  BY <1>2
<1>4. QED
  BY <1>1, <1>3, Invariance, PTL DEF Spec, ImplementsStore, Store!Spec

(***************************************************************************)
(* With the server stopped meanwhile, what is served or inserted is known  *)
(* to the command, and it stores an image only when it knows of none.      *)
(***************************************************************************)
CopiesKnown ==
  tool # Off =>
    /\ tool.pc = "load" => tool.inserted = {}
    /\ \A m \in MediaIds : tool.pc # "load" /\ rows[m] # None /\ files[m] # None =>
         [id |-> m, content |-> rows[m].content] \in tool.known
    /\ \A x \in tool.inserted : [id |-> x.id, content |-> x.content] \in tool.known
    /\ \A x, y \in tool.inserted : x.content = y.content => x.id = y.id
    /\ \A x \in tool.inserted : Copies(x.content) = {}
    /\ tool.place # None => Usable(tool.row.state.images[tool.place].content) = {}

LEMMA CopiesFrame ==
  ASSUME CopiesKnown, tool # Off, tool' # Off, UNCHANGED <<rows, files>>,
         tool'.known = tool.known, tool'.inserted = tool.inserted,
         tool'.pc = "load" <=> tool.pc = "load",
         tool'.place = None \/ (tool'.place = tool.place /\ tool'.row = tool.row)
  PROVE  CopiesKnown'
BY DEF CopiesKnown, Copies, RowsOf, Usable

LEMMA WriteFileCopies ==
  ASSUME IInv, CopiesKnown, NEW p \in Places, WriteFile(p)
  PROVE  CopiesKnown'
<1> DEFINE content == tool.row.state.images[p].content
<1>1. /\ tool.pc \in {"digests", "revisions"} /\ tool.place = None
      /\ Usable(content) = {} /\ rows' = rows
  BY DEF WriteFile, AtImage
<1>2. PICK m \in MediaIds : /\ minted[m] = None
                            /\ files' = [files EXCEPT ![m] = content]
                            /\ tool' = [tool EXCEPT !.place = p, !.id = m]
  BY DEF WriteFile
<1>3. tool # Off
  BY <1>1 DEF Off
<1>4. tool \in Running /\ KnownInOrder
  BY <1>3, RunningInv
<1>5. /\ tool' # Off /\ tool'.pc = tool.pc /\ tool'.known = tool.known
      /\ tool'.inserted = tool.inserted /\ tool'.place = p /\ tool'.row = tool.row
  <2>1. tool'.pc = tool.pc
    BY <1>2, <1>4 DEF Running
  <2>2. QED
    BY <1>1, <1>2, <1>4, <2>1 DEF Running, Off
<1>6. rows[m] = None /\ \A n \in MediaIds : n # m => files'[n] = files[n]
  BY <1>2 DEF IInv, TablesInOrder, TypeOK
<1>7. \A c \in Contents : Copies(c)' = Copies(c)
  BY <1>1, <1>6 DEF Copies, RowsOf
<1>8. \A x \in tool.inserted : x.content \in Contents
  BY <1>4, RunningFields
<1>9. \A x \in tool.known : x.id # m /\ x.id \in MediaIds
  BY <1>2, <1>4, RunningFields DEF KnownInOrder, Ref
<1>10. PICK c : c = content
  OBVIOUS
<1>11. Usable(c)' = {}
  BY <1>1, <1>5, <1>6, <1>9, <1>10 DEF Usable
<1>12. \A x \in tool.inserted : Copies(x.content)' = {}
  BY <1>3, <1>7, <1>8 DEF CopiesKnown
<1>13. CopiesKnown'
  <2>1. tool'.row.state.images[tool'.place].content = c
    BY <1>5, <1>10
  <2>2. \A n \in MediaIds : rows'[n] # None => rows'[n] = rows[n] /\ files'[n] = files[n]
    BY <1>1, <1>6
  <2>3. \A x \in tool'.inserted : Copies(x.content)' = {}
    BY <1>5, <1>12
  <2>4. Usable(tool.row.state.images[tool.place].content)' = {}
    BY <1>11, <2>1 DEF Usable
  <2>5. QED
    BY <1>1, <1>3, <1>5, <2>2, <2>3, <2>4 DEF CopiesKnown
<1>14. QED
  BY <1>13

LEMMA InsertCopies ==
  ASSUME IInv, CopiesKnown, InsertMedia
  PROVE  CopiesKnown'
<1>1. PICK m, c : m = tool.id /\ c = tool.row.state.images[tool.place].content
  OBVIOUS
<1>2. PICK row, new : /\ row = ReplacedBy(tool.place, tool.id)
                      /\ new = [id |-> tool.id, owner |-> tool.row.owner, content |-> c]
  OBVIOUS
<1>3. /\ tool.pc \in {"digests", "revisions"} /\ tool.place # None
      /\ UNCHANGED <<rows, files>>
      /\ tool' = [tool EXCEPT !.row = row, !.changed = TRUE, !.place = None, !.id = None,
                              !.inserted = @ \cup {new},
                              !.known = @ \cup {[id |-> m, content |-> c]}]
  BY <1>1, <1>2 DEF InsertMedia, media
<1>4. tool # Off
  BY <1>3 DEF Off
<1>5. tool \in Running /\ InsertedInOrder
  BY <1>4, RunningInv
<1>6. /\ tool' # Off /\ tool'.pc = tool.pc /\ tool'.place = None
      /\ tool'.inserted = tool.inserted \cup {new}
      /\ tool'.known = tool.known \cup {[id |-> m, content |-> c]}
  <2>1. tool'.pc = tool.pc
    BY <1>3, <1>5 DEF Running
  <2>2. QED
    BY <1>3, <1>5, <2>1 DEF Running, Off
<1>7. CopiesKnown /\ Usable(c) = {}
  BY <1>1, <1>3, <1>4 DEF CopiesKnown
<1>8. ASSUME NEW n, [id |-> n, content |-> c] \in tool.known, files[n] # None
      PROVE  FALSE
  <2>1. [id |-> n, content |-> c] \in Usable(c)
    BY <1>8 DEF Usable
  <2>2. QED
    BY <1>7, <2>1
<1>9. Copies(c) = {} /\ \A x \in tool.inserted : x.content # c
  <2>1. \A x \in tool.inserted : x.content \in Contents
    BY <1>5, RunningFields
  <2>2. \A x \in tool.inserted : files[x.id] # None
    BY <1>5, <2>1, StateMigrationAssumption DEF InsertedInOrder
  <2>3. \A x \in tool.inserted : x.content # c
    BY <1>4, <1>7, <1>8, <2>2 DEF CopiesKnown
  <2>4. Copies(c) = {}
    <3>1. \A n \in MediaIds : rows[n] # None /\ files[n] # None =>
            [id |-> n, content |-> rows[n].content] \in tool.known
      BY <1>3, <1>4, <1>7 DEF CopiesKnown
    <3>2. QED
      BY <1>8, <3>1 DEF Copies, RowsOf
  <2>5. QED
    BY <2>3, <2>4
<1>10. \A b : Copies(b)' = Copies(b)
  BY <1>3 DEF Copies, RowsOf
<1>11. new.id = m /\ new.content = c
  BY <1>1, <1>2
<1>12. \A x \in tool'.inserted : /\ Copies(x.content)' = {}
                                 /\ [id |-> x.id, content |-> x.content] \in tool'.known
  BY <1>4, <1>6, <1>7, <1>9, <1>10, <1>11 DEF CopiesKnown
<1>13. \A x, y \in tool'.inserted : x.content = y.content => x.id = y.id
  BY <1>4, <1>6, <1>7, <1>9, <1>11 DEF CopiesKnown
<1>14. CopiesKnown'
  BY <1>3, <1>4, <1>6, <1>7, <1>12, <1>13 DEF CopiesKnown
<1>15. QED
  BY <1>14

(* A new copy is one of those the commit adds.                              *)
LEMMA CommitCopies ==
  ASSUME IInv, CopiesKnown, Commit, NEW c \in Contents,
         NEW m \in Copies(c)' \ Copies(c), NEW n \in Copies(c)' \ Copies(c)
  PROVE  m = n /\ Copies(c) = {}
<1>1. tool # Off /\ files' = files
  BY AtCommit DEF Commit
<1>2. ASSUME NEW k \in Copies(c)' \ Copies(c)
      PROVE  \E x \in tool.inserted : x.id = k /\ x.content = c
  <2>1. k \in MediaIds /\ rows'[k] # None /\ rows'[k].content = c /\ files'[k] # None
    BY DEF Copies, RowsOf
  <2>2. CASE \E x \in tool.inserted : x.id = k
    <3>1. PICK x : x \in tool.inserted /\ x.id = k /\ x = CHOOSE y \in tool.inserted : y.id = k
      BY <2>2
    <3>2. rows'[k] = [owner |-> x.owner, content |-> x.content]
      BY <2>1, <2>2, <3>1 DEF Commit
    <3>3. QED
      BY <2>1, <3>1, <3>2
  <2>3. CASE ~ \E x \in tool.inserted : x.id = k
    <3>1. rows'[k] = rows[k]
      BY <2>1, <2>3 DEF Commit
    <3>2. k \in Copies(c)
      BY <1>1, <2>1, <3>1 DEF Copies, RowsOf
    <3>3. QED
      BY <3>2
  <2>4. QED
    BY <2>2, <2>3
<1>3. PICK x \in tool.inserted : x.id = m /\ x.content = c
  BY <1>2
<1>4. PICK y \in tool.inserted : y.id = n /\ y.content = c
  BY <1>2
<1>5. QED
  BY <1>1, <1>3, <1>4 DEF CopiesKnown

(* A save adds a copy beside another only if the row it looks at has lost    *)
(* its file.                                                                *)
LEMMA SaveCopies ==
  ASSUME NEW u \in Users, NEW d \in DigestIds, SaveDigest(u, d), NEW c \in Contents,
         RowsOf(c) = Copies(c),
         NEW m \in Copies(c)' \ Copies(c), NEW n \in Copies(c)' \ Copies(c)
  PROVE  m = n /\ Copies(c) = {}
<1>1. PICK s, made, url : StoreImages(u, s, made, url)
  BY DEF SaveDigest
<1>2. ASSUME NEW k \in Copies(c)' \ Copies(c)
      PROVE  \E p \in made : url[p] = k /\ s.images[p].content = c
  <2>1. k \in MediaIds /\ rows'[k] # None /\ rows'[k].content = c /\ files'[k] # None
    BY DEF Copies, RowsOf
  <2>2. PICK of : of = {p \in made : url[p] = k}
    OBVIOUS
  <2>3. /\ rows'[k] = IF of = {} THEN rows[k] ELSE
                [owner |-> u, content |-> s.images[CHOOSE p \in of : TRUE].content]
        /\ of = {} => files'[k] = files[k]
    BY <1>1, <2>1, <2>2 DEF StoreImages
  <2>4. CASE of = {}
    <3>1. k \in Copies(c)
      BY <2>1, <2>3, <2>4 DEF Copies, RowsOf
    <3>2. QED
      BY <3>1
  <2>5. CASE of # {}
    <3>1. PICK p \in of : p = CHOOSE q \in of : TRUE
      BY <2>5
    <3>2. QED
      BY <2>1, <2>2, <2>3, <2>5, <3>1
  <2>6. QED
    BY <2>4, <2>5
<1>3. PICK p \in made : url[p] = m /\ s.images[p].content = c
  BY <1>2
<1>4. PICK q \in made : url[q] = n /\ s.images[q].content = c
  BY <1>2
<1>5. /\ RowsOf(c) = {}
      /\ {r \in made : s.images[r].content = c} = {p}
  BY <1>1, <1>3 DEF StoreImages
<1>6. QED
  BY <1>3, <1>4, <1>5

LEMMA NextCopies ==
  ASSUME IInv, CopiesKnown, [Next]_vars, ~Serving
  PROVE  CopiesKnown'
<1>1. ASSUME tool # Off, tool' # Off, UNCHANGED <<rows, files>>,
             tool'.known = tool.known, tool'.inserted = tool.inserted,
             tool'.pc = "load" <=> tool.pc = "load",
             tool'.place = None \/ (tool'.place = tool.place /\ tool'.row = tool.row)
      PROVE  CopiesKnown'
  BY <1>1, CopiesFrame
<1>2. CASE UNCHANGED vars
  <2>1. CASE tool = Off
    BY <1>2, <2>1 DEF vars, CopiesKnown
  <2>2. CASE tool # Off
    BY <1>1, <1>2, <2>2 DEF vars
  <2>3. QED
    BY <2>1, <2>2
<1>3. CASE Start
  BY <1>3 DEF Start, CopiesKnown
<1>4. CASE LoadExistingMedia
  <2>1. /\ tool' = [tool EXCEPT !.known = KnownMedia, !.pc = "readDigests"]
        /\ tool.pc = "load" /\ UNCHANGED <<rows, files>>
    BY <1>4 DEF LoadExistingMedia, media
  <2>2. tool # Off
    BY <2>1 DEF Off
  <2>3. tool \in Running /\ tool.place = None /\ tool.inserted = {}
    BY <2>1, <2>2, RunningInv DEF Staged, FileInHand, CopiesKnown
  <2>4. /\ tool'.known = KnownMedia /\ tool'.pc = "readDigests"
        /\ tool'.place = None /\ tool'.inserted = {}
    BY <2>1, <2>3 DEF Running
  <2>5. CopiesKnown'
    BY <2>1, <2>4 DEF CopiesKnown, KnownMedia
  <2>6. QED
    BY <2>5
<1>5. CASE ReadDigests \/ ReadRevisions \/ TakeRow \/ EndLoop \/ UpdateRow \/ LeaveRow
  <2>1. tool # Off /\ tool \in Running /\ UNCHANGED <<rows, files>>
    <3>1. /\ tool.pc \in {"readDigests", "readRevisions", "digests", "revisions"}
          /\ UNCHANGED <<rows, files>>
      BY <1>5 DEF ReadDigests, ReadRevisions, TakeRow, EndLoop, UpdateRow, LeaveRow, media
    <3>2. tool # Off
      BY <3>1 DEF Off
    <3>3. QED
      BY <3>1, <3>2, RunningInv
  <2>2. /\ tool'.known = tool.known /\ tool'.inserted = tool.inserted
        /\ tool'.place = tool.place /\ tool' # Off
        /\ tool'.pc # "load" /\ tool.pc # "load"
    <3>1. CASE ReadDigests
      BY <2>1, <3>1 DEF ReadDigests, Running, Off
    <3>2. CASE ReadRevisions
      BY <2>1, <3>2 DEF ReadRevisions, Running, Off
    <3>3. CASE TakeRow
      BY <2>1, <3>3 DEF TakeRow, Running, Off
    <3>4. CASE EndLoop
      BY <2>1, <3>4 DEF EndLoop, Running, Off
    <3>5. CASE UpdateRow
      BY <2>1, <3>5 DEF UpdateRow, Running, Off
    <3>6. CASE LeaveRow
      BY <2>1, <3>6 DEF LeaveRow, Running, Off
    <3>7. QED
      BY <1>5, <3>1, <3>2, <3>3, <3>4, <3>5, <3>6
  <2>3. tool.place = None
    <3>1. FileInHand /\ Staged
      BY <2>1, RunningInv
    <3>2. QED
      BY <1>5, <2>1, <3>1, NothingInHand
      DEF ReadDigests, ReadRevisions, TakeRow, EndLoop, UpdateRow, LeaveRow,
          FileInHand, Staged
  <2>4. QED
    BY <1>1, <2>1, <2>2, <2>3
<1>6. ASSUME NEW p \in Places, ReuseMedia(p) PROVE CopiesKnown'
  <2>1. PICK row : /\ tool' = [tool EXCEPT !.row = row, !.changed = TRUE]
                   /\ tool.pc \in {"digests", "revisions"} /\ tool.place = None
                   /\ UNCHANGED <<rows, files>>
    BY <1>6 DEF ReuseMedia, AtImage, media
  <2>2. tool # Off
    BY <2>1 DEF Off
  <2>3. tool \in Running
    BY <2>2, RunningInv
  <2>4. /\ tool'.known = tool.known /\ tool'.inserted = tool.inserted
        /\ tool'.place = None /\ tool'.pc = tool.pc /\ tool' # Off
    BY <2>1, <2>3 DEF Running, Off
  <2>5. QED
    BY <1>1, <2>1, <2>2, <2>4
<1>7. CASE Commit \/ Fail \/ InsertFails
  BY <1>7 DEF Commit, Fail, InsertFails, CopiesKnown
<1>8. CASE ServerStep
  BY <1>8 DEF ServerStep, SaveDigest, DeleteDigest, DeleteUser, Up, CopiesKnown
<1>9. QED
  BY <1>2, <1>3, <1>4, <1>5, <1>6, <1>7, <1>8, WriteFileCopies, InsertCopies
  DEF Next, ToolStep

LEMMA StepCopies ==
  ASSUME IInv, CopiesKnown, [Next]_vars, ~Serving, NEW c \in Contents,
         NEW m \in Copies(c)' \ Copies(c), NEW n \in Copies(c)' \ Copies(c)
  PROVE  \/ tool = Off /\ RowsOf(c) # Copies(c)
         \/ m = n /\ Copies(c) = {}
<1>1. ~ (Copies(c)' \subseteq Copies(c))
  OBVIOUS
<1>2. ASSUME \A k \in MediaIds :
               rows'[k] # None /\ files'[k] # None => rows'[k] = rows[k] /\ files'[k] = files[k]
      PROVE  FALSE
  BY <1>1, <1>2 DEF Copies, RowsOf
<1>3. TablesInOrder /\ TypeOK
  BY DEF IInv, TablesInOrder
<1>4. ASSUME NEW p \in Places, WriteFile(p)
      PROVE  FALSE
  BY <1>2, <1>3, <1>4 DEF WriteFile, TypeOK
<1>5. CASE InsertFails
  BY <1>2, <1>3, <1>5 DEF InsertFails, TypeOK
<1>6. CASE Commit
  BY <1>6, CommitCopies
<1>7. ASSUME NEW u \in Users, NEW d \in DigestIds, SaveDigest(u, d)
      PROVE  \/ tool = Off /\ RowsOf(c) # Copies(c)
             \/ m = n /\ Copies(c) = {}
  <2>1. tool = Off
    BY <1>7 DEF SaveDigest, Up
  <2>2. QED
    BY <1>7, <2>1, SaveCopies
<1>8. ASSUME NEW u \in Users, DeleteUser(u)
      PROVE  FALSE
  BY <1>2, <1>8 DEF DeleteUser
<1>9. \/ UNCHANGED <<rows, files>> \/ InsertFails \/ Commit \/ \E p \in Places : WriteFile(p)
      \/ \E u \in Users, d \in DigestIds : SaveDigest(u, d)
      \/ \E u \in Users : DeleteUser(u)
  BY DEF Next, vars, media, Start, ToolStep, LoadExistingMedia, ReadDigests, ReadRevisions,
     TakeRow, EndLoop, ReuseMedia, InsertMedia, UpdateRow, LeaveRow, Fail, ServerStep,
     DeleteDigest
<1>10. QED
  BY <1>2, <1>4, <1>5, <1>6, <1>7, <1>8, <1>9

(* However often the command fails between writing a file, inserting its row *)
(* and committing, and is run again, it stores an image only if no row of it *)
(* is served, and then once, if no request runs beside it.  A second copy    *)
(* can only come from a save whose lookup answers a row that has no file.    *)
THEOREM NoNeedlessCopyOffline ==
  ASSUME ~Serving
  PROVE  Spec => NoNeedlessCopy
<1>1. Init => CopiesKnown
  BY DEF Init, CopiesKnown
<1>2. IInv /\ CopiesKnown /\ [Next]_vars => CopiesKnown'
  BY NextCopies
<1>3. IInv /\ CopiesKnown /\ [Next]_vars =>
        [\A c \in Contents : \A m, n \in Copies(c)' \ Copies(c) :
           \/ tool = Off /\ RowsOf(c) # Copies(c)
           \/ m = n /\ Copies(c) = {}]_vars
  BY StepCopies
<1>4. QED
  BY <1>1, <1>2, <1>3, Invariance, PTL DEF Spec, NoNeedlessCopy
=============================================================================
