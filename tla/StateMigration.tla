--------------------------- MODULE StateMigration ---------------------------
(***************************************************************************)
(* cmd/migrate-state-media: moves the images that older releases left      *)
(* inline in digests and revisions into media rows and files.  One         *)
(* transaction reads all digests, then all revisions, and writes each back *)
(* with URLs in place of the images; files are written on the way.  The    *)
(* command may die at any point and be run again, and the server may be    *)
(* serving meanwhile (Serving), one atomic request at a time: modules      *)
(* PgDigestStore and Media look inside those requests.                     *)
(*                                                                         *)
(* The transaction is READ COMMITTED: each SELECT sees what is committed   *)
(* when it runs; a row it has updated stays locked and a user it has       *)
(* inserted media for cannot be deleted until it ends.                     *)
(***************************************************************************)
EXTENDS Naturals

CONSTANTS
  Users, DigestIds,
  Edits,          \* the text of a digest, told apart only by equality
  Places,         \* where a state can hold an image
  Contents,       \* image bytes, told apart as their SHA-256 tells them apart
  MediaIds,       \* ids newUUID() hands out
  Sent,           \* states clients save
  Legacy,         \* digests in the database at the start, at version 1
  LegacyMedia,    \* media at the start: rows and the files that are there
  None,           \* no row, no file, nothing in hand
  MaxVersion,     \* bound on the saves of one digest
  MaxRuns,        \* bound on how often the command is started
  Serving         \* TRUE: the server takes requests while the command runs

VARIABLES
  users, digests, revisions, issued,     \* as in module DigestStore
  rows,           \* committed media row under each id, or None
  files,          \* content of the file under each id, or None
  minted,         \* user on whose behalf each media id was made, or None
  tool,           \* what the running command has reached
  runs,           \* how often it has been started
  outcome         \* how the last run ended

tables == <<users, digests, revisions, issued>>
media  == <<rows, files, minted>>
vars   == <<users, digests, revisions, issued, rows, files, minted, tool, runs, outcome>>

(* "broken" matches the pattern but is not base64; "foreign" is an image    *)
(* data URL of a type the pattern leaves alone.                             *)
NoImage     == [form |-> "none"]
Inline(c)   == [form |-> "inline", content |-> c]
Broken      == [form |-> "broken"]
Foreign     == [form |-> "foreign"]
Stored(m)   == [form |-> "media", id |-> m]
PlainImages == {NoImage, Broken, Foreign} \cup {Inline(c) : c \in Contents}
Image       == PlainImages \cup {Stored(m) : m \in MediaIds}

State     == [edit : Edits, images : [Places -> Image]]
Digest    == [owner : Users, version : 1..MaxVersion, state : State]
Revision  == [digest : DigestIds, version : 1..MaxVersion, state : State]
MediaRow  == [owner : Users, content : Contents]

Matches(s)    == {p \in Places : s.images[p].form \in {"inline", "broken"}}
HasDataURL(s) == Matches(s) # {} \/ \E p \in Places : s.images[p] = Foreign
Inlines(s)    == {p \in Places : s.images[p].form = "inline"}

Off == [pc |-> "off"]
Row == [table : {"digests", "revisions"}, digest : DigestIds, version : 1..MaxVersion,
        owner : Users, state : State]
Ref == [id : MediaIds, content : Contents]
Running ==
  [pc : {"load", "readDigests", "digests", "readRevisions", "revisions", "commit"},
   known    : SUBSET Ref,                       \* mediaBySHA
   pending  : SUBSET Row,
   row      : Row \cup {None}, changed : BOOLEAN, \* the row being transformed
   place    : Places \cup {None}, id : MediaIds \cup {None},
   inserted : SUBSET [id : MediaIds, owner : Users, content : Contents],
   written  : SUBSET Row]                       \* rows updated in the transaction

ASSUME StateMigrationAssumption ==
  /\ MaxVersion \in Nat \ {0} /\ MaxRuns \in Nat /\ Serving \in BOOLEAN
  /\ \A s \in Sent : s \in State /\ s.images \in [Places -> PlainImages]
  /\ \A g \in Legacy : /\ g \in Digest /\ g.version = 1
                       /\ g.state.images \in [Places -> PlainImages]
  /\ \A stored \in LegacyMedia :
       /\ stored.rows \in [MediaIds -> MediaRow \cup {None}]
       /\ stored.files \in [MediaIds -> Contents \cup {None}]
       /\ \A m \in MediaIds : stored.files[m] # None =>
            stored.rows[m] # None /\ stored.files[m] = stored.rows[m].content
  /\ None \notin Users \cup Contents \cup MediaIds \cup Places
  /\ None \notin Digest /\ None \notin MediaRow /\ None \notin Row

Init ==
  /\ users = Users
  /\ digests \in [DigestIds -> Legacy \cup {None}]
  /\ issued = {d \in DigestIds : digests[d] # None}
  /\ revisions = {[digest |-> d, version |-> 1, state |-> digests[d].state] : d \in issued}
  /\ \E stored \in LegacyMedia :
       /\ rows = stored.rows /\ files = stored.files
       /\ minted = [m \in MediaIds |-> IF rows[m] = None THEN None ELSE rows[m].owner]
  /\ tool = Off /\ runs = 0 /\ outcome = "none"

-----------------------------------------------------------------------------
(* Definitions named Bad... are plausible mistakes in the ones they precede; *)
(* the specification never uses them.                                        *)
Start ==
  /\ tool = Off /\ runs < MaxRuns
  /\ tool' = [pc |-> "load", known |-> {}, pending |-> {}, row |-> None,
              changed |-> FALSE, place |-> None, id |-> None,
              inserted |-> {}, written |-> {}]
  /\ runs' = runs + 1 /\ outcome' = "none"
  /\ UNCHANGED <<tables, media>>

KnownMedia == {[id |-> m, content |-> rows[m].content] : m \in {n \in MediaIds : rows[n] # None}}

LoadExistingMedia ==
  /\ tool.pc = "load"
  /\ tool' = [tool EXCEPT !.known = KnownMedia, !.pc = "readDigests"]
  /\ UNCHANGED <<tables, media, runs, outcome>>

(* WHERE current_state::text LIKE '%data:image/%'.  The command does not    *)
(* read the version; it is kept here to say what the row was when read.     *)
DigestRows ==
  {[table |-> "digests", digest |-> d, version |-> digests[d].version,
    owner |-> digests[d].owner, state |-> digests[d].state] :
     d \in {e \in DigestIds : digests[e] # None /\ HasDataURL(digests[e].state)}}

ReadDigests ==
  /\ tool.pc = "readDigests"
  /\ tool' = [tool EXCEPT !.pending = DigestRows, !.pc = "digests"]
  /\ UNCHANGED <<tables, media, runs, outcome>>

(* Only the revisions of digests whose current state was pending.           *)
BadRevisionRows ==
  {[table |-> "revisions", digest |-> x.digest, version |-> x.version,
    owner |-> digests[x.digest].owner, state |-> x.state] :
     x \in {y \in revisions : HasDataURL(y.state) /\ HasDataURL(digests[y.digest].state)}}
RevisionRows ==
  {[table |-> "revisions", digest |-> x.digest, version |-> x.version,
    owner |-> digests[x.digest].owner, state |-> x.state] :
     x \in {y \in revisions : HasDataURL(y.state)}}

ReadRevisions ==
  /\ tool.pc = "readRevisions"
  /\ tool' = [tool EXCEPT !.pending = RevisionRows, !.pc = "revisions"]
  /\ UNCHANGED <<tables, media, runs, outcome>>

(* The loop of migrateDigests and of migrateRevisions takes the next row.   *)
BadTakeRow ==
  /\ tool.pc \in {"digests", "revisions"} /\ tool.row = None
  /\ \E x \in tool.pending : tool' = [tool EXCEPT !.row = x, !.changed = FALSE]
  /\ UNCHANGED <<tables, media, runs, outcome>>
TakeRow ==
  /\ tool.pc \in {"digests", "revisions"} /\ tool.row = None
  /\ \E x \in tool.pending :
       tool' = [tool EXCEPT !.pending = @ \ {x}, !.row = x, !.changed = FALSE]
  /\ UNCHANGED <<tables, media, runs, outcome>>

EndLoop ==
  /\ tool.pc \in {"digests", "revisions"} /\ tool.row = None /\ tool.pending = {}
  /\ tool' = [tool EXCEPT !.pc = IF @ = "digests" THEN "readRevisions" ELSE "commit"]
  /\ UNCHANGED <<tables, media, runs, outcome>>

-----------------------------------------------------------------------------
(* transformValue comes to the image at place p: objects in any order.      *)
AtImage(p) ==
  /\ tool.pc \in {"digests", "revisions"}
  /\ tool.row # None /\ tool.place = None
  /\ p \in Matches(tool.row.state)

(* A known row whose file is there, whoever owns it.                        *)
BadUsable(content) == {x \in tool.known : files[x.id] # None}
Usable(content)    == {x \in tool.known : x.content = content /\ files[x.id] # None}

(* newUUID hands out an id it may hand out again.                           *)
BadMint(m, u) == minted' = minted
Mint(m, u)    == minted' = [minted EXCEPT ![m] = u]

ReplacedBy(p, m) == [tool.row EXCEPT !.state.images[p] = Stored(m)]

ReuseMedia(p) ==
  /\ AtImage(p) /\ tool.row.state.images[p].form = "inline"
  /\ \E x \in Usable(tool.row.state.images[p].content) :
       tool' = [tool EXCEPT !.row = ReplacedBy(p, x.id), !.changed = TRUE]
  /\ UNCHANGED <<tables, media, runs, outcome>>

WriteFile(p) ==
  /\ AtImage(p) /\ tool.row.state.images[p].form = "inline"
  /\ LET content == tool.row.state.images[p].content
     IN  /\ Usable(content) = {}
         /\ \E m \in MediaIds :
              /\ minted[m] = None
              /\ Mint(m, tool.row.owner)
              /\ files' = [files EXCEPT ![m] = content]
              /\ tool' = [tool EXCEPT !.place = p, !.id = m]
  /\ UNCHANGED <<tables, rows, runs, outcome>>

(* The new row is not added to mediaBySHA.                                  *)
BadInsertMedia ==
  /\ tool.pc \in {"digests", "revisions"} /\ tool.place # None
  /\ tool.row.owner \in users
  /\ tool' = [tool EXCEPT
       !.row = ReplacedBy(tool.place, tool.id), !.changed = TRUE,
       !.place = None, !.id = None,
       !.inserted = @ \cup {[id |-> tool.id, owner |-> tool.row.owner,
                             content |-> tool.row.state.images[tool.place].content]}]
  /\ UNCHANGED <<tables, media, runs, outcome>>
InsertMedia ==
  /\ tool.pc \in {"digests", "revisions"} /\ tool.place # None
  /\ tool.row.owner \in users
  /\ LET content == tool.row.state.images[tool.place].content
     IN tool' = [tool EXCEPT
          !.row = ReplacedBy(tool.place, tool.id), !.changed = TRUE,
          !.place = None, !.id = None,
          !.inserted = @ \cup {[id |-> tool.id, owner |-> tool.row.owner,
                                content |-> content]},
          !.known = @ \cup {[id |-> tool.id, content |-> content]}]
  /\ UNCHANGED <<tables, media, runs, outcome>>

(* The row an UPDATE ... WHERE id addresses; it may have been deleted.       *)
StillThere(x) ==
  IF x.table = "digests" THEN digests[x.digest] # None
  ELSE \E y \in revisions : y.digest = x.digest /\ y.version = x.version

(* The UPDATE run on the pool instead of the transaction.                   *)
BadUpdateRow ==
  /\ tool.pc \in {"digests", "revisions"} /\ tool.row # None
  /\ Matches(tool.row.state) = {} /\ tool.changed
  /\ digests' = IF tool.row.table = "digests" /\ StillThere(tool.row)
                THEN [digests EXCEPT ![tool.row.digest].state = tool.row.state]
                ELSE digests
  /\ tool' = [tool EXCEPT !.row = None,
       !.written = @ \cup {x \in {tool.row} : x.table = "revisions" /\ StillThere(x)}]
  /\ UNCHANGED <<users, revisions, issued, media, runs, outcome>>
UpdateRow ==
  /\ tool.pc \in {"digests", "revisions"} /\ tool.row # None
  /\ Matches(tool.row.state) = {} /\ tool.changed
  /\ tool' = [tool EXCEPT !.row = None,
                          !.written = @ \cup {x \in {tool.row} : StillThere(x)}]
  /\ UNCHANGED <<tables, media, runs, outcome>>

LeaveRow ==
  /\ tool.pc \in {"digests", "revisions"} /\ tool.row # None
  /\ Matches(tool.row.state) = {} /\ ~tool.changed
  /\ tool' = [tool EXCEPT !.row = None]
  /\ UNCHANGED <<tables, media, runs, outcome>>

WrittenTo(table, d) == {x \in tool.written : x.table = table /\ x.digest = d}

(* Revisions addressed by their digest instead of their own id.             *)
BadNewState(x) ==
  LET writes == WrittenTo("revisions", x.digest)
  IN  IF writes = {} THEN x.state ELSE (CHOOSE w \in writes : TRUE).state
NewState(x) ==
  LET writes == {w \in WrittenTo("revisions", x.digest) : w.version = x.version}
  IN  IF writes = {} THEN x.state ELSE (CHOOSE w \in writes : TRUE).state

Commit ==
  /\ tool.pc = "commit"
  /\ digests' = [d \in DigestIds |->
       LET writes == WrittenTo("digests", d)
       IN  IF writes = {} THEN digests[d]
           ELSE [digests[d] EXCEPT !.state = (CHOOSE w \in writes : TRUE).state]]
  /\ revisions' = {[x EXCEPT !.state = NewState(x)] : x \in revisions}
  /\ rows' = [m \in MediaIds |->
       IF \E x \in tool.inserted : x.id = m
       THEN LET x == CHOOSE y \in tool.inserted : y.id = m
            IN  [owner |-> x.owner, content |-> x.content]
       ELSE rows[m]]
  /\ tool' = Off /\ outcome' = "done"
  /\ UNCHANGED <<users, issued, files, minted, runs>>

(* log.Fatalf, on an image that is broken, a failed statement or file       *)
(* operation, or the process is killed: the transaction is gone, the files  *)
(* stay.                                                                    *)
Fail ==
  /\ tool # Off
  /\ tool' = Off /\ outcome' = "failed"
  /\ UNCHANGED <<tables, media, runs>>

(* The INSERT fails, as it must once the owner is deleted: the file just     *)
(* written is removed before the command gives up.                           *)
InsertFails ==
  /\ tool # Off /\ tool.pc \in {"digests", "revisions"} /\ tool.place # None
  /\ files' = [files EXCEPT ![tool.id] = None]
  /\ tool' = Off /\ outcome' = "failed"
  /\ UNCHANGED <<tables, rows, minted, runs>>

ToolStep ==
  \/ LoadExistingMedia \/ ReadDigests \/ ReadRevisions \/ TakeRow \/ EndLoop
  \/ \E p \in Places : ReuseMedia(p) \/ WriteFile(p)
  \/ InsertMedia \/ UpdateRow \/ LeaveRow \/ Commit

-----------------------------------------------------------------------------
(* The server, as far as the tables of the migration go.                    *)
Up == Serving \/ tool = Off

RowLocked(table, d) == tool # Off /\ WrittenTo(table, d) # {}
DigestLocked(d) == RowLocked("digests", d) \/ RowLocked("revisions", d)
UserLocked(u) == tool # Off /\ \E x \in tool.inserted : x.owner = u

Owned(u, d) == digests[d] # None /\ digests[d].owner = u
RowsOf(c) == {m \in MediaIds : rows[m] # None /\ rows[m].content = c}
Copies(c) == {m \in RowsOf(c) : files[m] # None}

(* normalizeState takes image by image: FindMediaBySHA answers with one row *)
(* of its content, and the image at a place of made is stored anew, because *)
(* that row has no file or there is none.  The row is the oldest one; their *)
(* times come from the clocks of the database and of the command, so it may *)
(* be any.                                                                  *)
StoreImages(u, s, made, url) ==
  LET content(p) == s.images[p].content
      alike(p)   == {q \in made : content(q) = content(p)}
      of(m)      == {p \in made : url[p] = m}
  IN  /\ \A p \in made :
           /\ minted[url[p]] = None /\ of(url[p]) = {p}
           /\ \/ RowsOf(content(p)) # Copies(content(p))
              \/ RowsOf(content(p)) = {} /\ alike(p) = {p}
      /\ \A p \in Inlines(s) \ made :
           url[p] \in Copies(content(p)) \cup {url[q] : q \in alike(p)}
      /\ rows' = [m \in MediaIds |-> IF of(m) = {} THEN rows[m] ELSE
                    [owner |-> u, content |-> content(CHOOSE p \in of(m) : TRUE)]]
      /\ files' = [m \in MediaIds |-> IF of(m) = {} THEN files[m] ELSE
                    content(CHOOSE p \in of(m) : TRUE)]
      /\ minted' = [m \in MediaIds |-> IF of(m) = {} THEN minted[m] ELSE u]

WithURLs(s, url) ==
  [s EXCEPT !.images = [p \in Places |->
     IF p \in Inlines(s) THEN Stored(url[p]) ELSE @[p]]]

(* An autosave of a state a client holds, or a rollback to a revision.      *)
SaveDigest(u, d) ==
  /\ Up
  /\ Owned(u, d) /\ ~RowLocked("digests", d) /\ digests[d].version < MaxVersion
  /\ \E s \in Sent \cup {x.state : x \in {y \in revisions : y.digest = d}} :
       /\ \A p \in Places : s.images[p] # Broken
       /\ \E made \in SUBSET Inlines(s), url \in [Inlines(s) -> MediaIds] :
            /\ StoreImages(u, s, made, url)
            /\ LET saved == [owner |-> u, version |-> digests[d].version + 1,
                             state |-> WithURLs(s, url)]
               IN  /\ digests' = [digests EXCEPT ![d] = saved]
                   /\ revisions' = revisions \cup
                        {[digest |-> d, version |-> saved.version, state |-> saved.state]}
  /\ UNCHANGED <<users, issued, tool, runs, outcome>>

Drop(ids) ==
  /\ digests' = [d \in DigestIds |-> IF d \in ids THEN None ELSE digests[d]]
  /\ revisions' = {x \in revisions : x.digest \notin ids}

DeleteDigest(u, d) ==
  /\ Up
  /\ Owned(u, d) /\ ~DigestLocked(d)
  /\ Drop({d})
  /\ UNCHANGED <<users, issued, media, tool, runs, outcome>>

DeleteUser(u) ==
  /\ Up
  /\ u \in users /\ ~UserLocked(u)
  /\ \A d \in DigestIds : Owned(u, d) => ~DigestLocked(d)
  /\ users' = users \ {u}
  /\ Drop({d \in DigestIds : Owned(u, d)})
  /\ rows' = [m \in MediaIds |->
                IF rows[m] # None /\ rows[m].owner = u THEN None ELSE rows[m]]
  /\ UNCHANGED <<issued, files, minted, tool, runs, outcome>>

ServerStep ==
  \E u \in Users : DeleteUser(u) \/ \E d \in DigestIds : SaveDigest(u, d) \/ DeleteDigest(u, d)

Next == Start \/ ToolStep \/ Fail \/ InsertFails \/ ServerStep

Spec == Init /\ [][Next]_vars

(* A running command goes on: each step follows the last at once, and no    *)
(* request holds a lock it waits for (a server step is atomic).  A broken   *)
(* image ends it.  That it is run again, or fails, is left to chance.       *)
BrokenImage ==
  /\ \E p \in Places : AtImage(p) /\ tool.row.state.images[p] = Broken
  /\ Fail

FairSpec == Spec /\ WF_vars(ToolStep) /\ WF_vars(BrokenImage) /\ WF_vars(InsertFails)

-----------------------------------------------------------------------------
(* What a state says: its text and the bytes behind its images, inline or   *)
(* in a file.                                                               *)
PlainMeaning(image) == IF image.form = "inline" THEN image.content ELSE image.form
Meaning(image) ==
  IF image.form = "media" THEN files[image.id] ELSE PlainMeaning(image)
Means(s) == [edit |-> s.edit, images |-> [p \in Places |-> Meaning(s.images[p])]]
PlainMeans(s) ==
  [edit |-> s.edit, images |-> [p \in Places |-> PlainMeaning(s.images[p])]]

Seen(g, meaning) ==
  [owner |-> g.owner, title |-> "title", type |-> "analytical",
   version |-> g.version, state |-> [edit |-> meaning, images |-> "none"]]

(* The contract of module DigestStore, over what states mean.               *)
Store == INSTANCE DigestStore WITH
  Titles <- {"title"}, KnownTypes <- {"analytical"}, UnknownType <- "unknown",
  NoType <- "", ChecksTypes <- TRUE,
  Edits <- {PlainMeans(s) : s \in Sent \cup {g.state : g \in Legacy}},
  Images <- {"none"},
  Legacy <- {Seen(g, PlainMeans(g.state)) : g \in Legacy},
  digests <- [d \in DigestIds |->
                IF digests[d] = None THEN None ELSE Seen(digests[d], Means(digests[d].state))],
  revisions <- {[digest |-> x.digest, version |-> x.version,
                 state |-> [edit |-> Means(x.state), images |-> "none"]] : x \in revisions}

ASSUME StoreAssumption == None \notin Store!Digest

-----------------------------------------------------------------------------
(* The tables, the files and the command's progress are of the declared      *)
(* kinds, and nothing exists under a media id that was never made.           *)
TypeOK ==
  /\ users \subseteq Users
  /\ digests \in [DigestIds -> Digest \cup {None}]
  /\ issued \subseteq DigestIds
  /\ revisions \subseteq Revision
  /\ rows \in [MediaIds -> MediaRow \cup {None}]
  /\ files \in [MediaIds -> Contents \cup {None}]
  /\ minted \in [MediaIds -> Users \cup {None}]
  /\ \A m \in MediaIds : minted[m] = None => rows[m] = None /\ files[m] = None
  /\ tool \in {Off} \cup Running
  /\ runs \in 0..MaxRuns /\ outcome \in {"none", "done", "failed"}

(* While the server is stopped, the command, its failures and its retries    *)
(* change no digest and no revision in what it means: every step is a step   *)
(* of the store or makes no difference to it.                                *)
ImplementsStore == Store!Spec

(* Once a run has ended well and until the next, no digest and no revision,  *)
(* not even of a digest whose current state was clean, holds inline images.  *)
NoInlineLeft ==
  outcome = "done" =>
    /\ \A d \in DigestIds : digests[d] # None => Matches(digests[d].state) = {}
    /\ \A x \in revisions : Matches(x.state) = {}

Committed == {digests[d].state : d \in {e \in DigestIds : digests[e] # None}}
             \cup {x.state : x \in revisions}

(* Committed states never name an image that a crash or an error has rolled  *)
(* back: each URL is served unless the user it was stored for is gone.       *)
ReferencesServed ==
  \A s \in Committed : \A p \in Places :
    s.images[p].form = "media" =>
      LET m == s.images[p].id
      IN  \/ rows[m] # None /\ files[m] = rows[m].content
          \/ minted[m] \notin users

(* With the server stopped the command stores an image only if no row of it  *)
(* is servable, and once, however often runs failed before.  Only a save of  *)
(* the server adds a copy beside another one, when the row it looks at has   *)
(* lost its file.                                                            *)
NoNeedlessCopy ==
  [][\A c \in Contents : \A m, n \in Copies(c)' \ Copies(c) :
       \/ tool = Off /\ RowsOf(c) # Copies(c)
       \/ m = n /\ Copies(c) = {}]_vars

(* What a reader gets for an image: a media URL is answered from the row.     *)
Served(row, file, image) ==
  IF image.form # "media" THEN PlainMeaning(image)
  ELSE IF row[image.id] = None THEN None ELSE file[image.id]

(* Image j takes the place of i and a reader gets the same for it.  An image  *)
(* is lost with the account it was stored for; and the command puts the URL   *)
(* of such a lost row in the place of an inline image, if the account went    *)
(* after the command had loaded the row: it looks at the file only.           *)
Keeps(i, j) ==
  \/ Served(rows, files, i) = Served(rows', files', j)
  \/ i = j /\ i.form = "media" /\ minted[i.id] \in users \ users'
  \/ /\ i.form = "inline" /\ j.form = "media"
     /\ [id |-> j.id, content |-> i.content] \in tool.known
     /\ minted[j.id] \notin users /\ files'[j.id] = i.content

ShowsAsBefore(s, t) ==
  t.edit = s.edit /\ \A p \in Places : Keeps(s.images[p], t.images[p])

(* A revision shows the same to its readers as long as it exists, also when  *)
(* requests run beside the command, but for images that go with an account.  *)
RevisionsKeepShowing ==
  [][\A x \in revisions, y \in revisions' :
       x.digest = y.digest /\ x.version = y.version => ShowsAsBefore(x.state, y.state)]_vars

(* Beside a running server the command can only undo saves: but for images    *)
(* that go with an account, what a digest shows changes without a new version *)
(* only if it was saved after the command had read it.                        *)
OnlyLaterSavesUndone ==
  [][\A d \in DigestIds :
       /\ digests[d] # None /\ digests'[d] # None
       /\ digests[d].version = digests'[d].version
       /\ ~ShowsAsBefore(digests[d].state, digests'[d].state)
       => \E x \in WrittenTo("digests", d) : x.version < digests[d].version]_vars

(* A digest that was saved shows what was saved: the current state of a      *)
(* digest is that of its latest revision.                                    *)
SavedStateIsCurrent ==
  \A d \in DigestIds : digests[d] # None =>
    \E x \in revisions :
      /\ x.digest = d /\ x.version = digests[d].version
      /\ Means(x.state) = Means(digests[d].state)

(* Every run of the command ends.                                            *)
RunsEnd == tool # Off ~> tool = Off
=============================================================================
