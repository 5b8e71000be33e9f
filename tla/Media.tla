------------------------------- MODULE Media -------------------------------
(***************************************************************************)
(* Images: the rows of the media table, the files under MediaDir, and the  *)
(* digests that refer to them.  An image arrives inline in a digest state  *)
(* (saveMediaBytes, which reuses a stored copy with the same SHA-256) or   *)
(* by POST /api/media (which always stores a new one); the URL ends up in  *)
(* a digest.  Looking up, checking the file, creating it, filling it,      *)
(* saving the row and saving the digest are steps of their own, and other  *)
(* requests run in between.                                                *)
(*                                                                         *)
(* File system and database are external: what they may do is what the     *)
(* code is written to survive.                                             *)
(***************************************************************************)
EXTENDS Naturals

CONSTANTS
  Users,          \* accounts
  Contents,       \* image bytes, told apart as their SHA-256 tells them apart
  MediaIds,       \* ids newUUID() hands out
  Requests,       \* requests in flight
  Settings,       \* the store the server runs with, and what may go wrong there
  None            \* no row, no file

VARIABLES
  setting,        \* member of Settings, chosen when the server is set up
  users,          \* accounts that have not been deleted
  rows,           \* media row under each id, or None
  files,          \* content of the file under each id, or None
  minted,         \* user on whose behalf each id was made, or None
  refused,        \* ids for which SaveMedia answered an error
  refs,           \* media ids in the digests of each user, with the image meant
  req             \* what each in-flight request has reached

vars == <<setting, users, rows, files, minted, refused, refs, req>>

(* crash: the server process stops; disk: writing or removing a file fails; *)
(* reply: the request's context is cancelled while SaveMedia commits.       *)
AllFaults == {"crash", "disk", "reply"}
Setting == [store : {"postgres", "memory"}, faults : SUBSET AllFaults]
Postgres == setting.store = "postgres"
Faults == setting.faults
Partial == "partial"

Row  == [owner : Users, content : Contents]
Ref  == [user : Users, id : MediaIds, content : Contents]
Idle == [pc |-> "idle"]
Request ==
       {Idle}
  \cup [pc : {"find", "create"}, via : {"inline", "upload"}, user : Users,
        content : Contents]
  \cup [pc : {"stat", "fill", "save", "remove", "attach"},
        via : {"inline", "upload"}, user : Users, content : Contents, id : MediaIds]
  \cup [pc : {"open"}, id : MediaIds, content : Contents]

ASSUME MediaAssumption ==
  /\ Settings \subseteq Setting
  /\ Partial \notin Contents
  /\ None \notin Row /\ None \notin Contents \cup {Partial} /\ None \notin Users

Init ==
  /\ setting \in Settings
  /\ users = Users
  /\ rows = [m \in MediaIds |-> None]
  /\ files = [m \in MediaIds |-> None]
  /\ minted = [m \in MediaIds |-> None]
  /\ refused = {}
  /\ refs = {}
  /\ req = [r \in Requests |-> Idle]

Become(r, held) == req' = [req EXCEPT ![r] = held]
Goto(r, pc) == req' = [req EXCEPT ![r].pc = pc]
With(r, pc, m) ==
  Become(r, [pc |-> pc, via |-> req[r].via, user |-> req[r].user,
             content |-> req[r].content, id |-> m])
End(r) == Become(r, Idle)

-----------------------------------------------------------------------------
BeginInline(r, u, content) ==
  /\ req[r] = Idle /\ u \in users
  /\ Become(r, [pc |-> "find", via |-> "inline", user |-> u, content |-> content])
  /\ UNCHANGED <<setting, users, rows, files, minted, refused, refs>>

BeginUpload(r, u, content) ==
  /\ req[r] = Idle /\ u \in users
  /\ Become(r, [pc |-> "create", via |-> "upload", user |-> u, content |-> content])
  /\ UNCHANGED <<setting, users, rows, files, minted, refused, refs>>

(* Definitions named Bad... are plausible mistakes in the ones they precede; *)
(* the specification never uses them.                                        *)
BadSameImage(m, content) == rows[m] # None
SameImage(m, content)    == rows[m] # None /\ rows[m].content = content

BadFound(r, m) == Goto(r, "stat")
Found(r, m)    == With(r, "stat", m)

(* The oldest row in Postgres, any row in MemoryStore, whoever owns it.      *)
FindMediaBySHA(r) ==
  /\ req[r].pc = "find"
  /\ \/ \E m \in MediaIds : SameImage(m, req[r].content) /\ Found(r, m)
     \/ /\ ~\E m \in MediaIds : SameImage(m, req[r].content)
        /\ Goto(r, "create")
  /\ UNCHANGED <<setting, users, rows, files, minted, refused, refs>>

FileThere(m) == files[m] # None

(* A row whose file is missing is passed over and the image stored anew.     *)
StatFile(r) ==
  /\ req[r].pc = "stat"
  /\ \/ FileThere(req[r].id) /\ Goto(r, "attach")
     \/ /\ ~FileThere(req[r].id)
        /\ Become(r, [pc |-> "create", via |-> req[r].via, user |-> req[r].user,
                      content |-> req[r].content])
  /\ UNCHANGED <<setting, users, rows, files, minted, refused, refs>>

(* newUUID and the open-and-truncate half of WriteFile or os.Create.         *)
CreateFile(r) ==
  /\ req[r].pc = "create"
  /\ \E m \in MediaIds :
       /\ minted[m] = None
       /\ minted' = [minted EXCEPT ![m] = req[r].user]
       /\ files' = [files EXCEPT ![m] = Partial]
       /\ With(r, "fill", m)
  /\ UNCHANGED <<setting, users, rows, refused, refs>>

(* The record is saved before the bytes are all written.                     *)
BadFillFile(r) ==
  /\ req[r].pc = "fill"
  /\ Goto(r, "save")
  /\ UNCHANGED <<setting, users, rows, files, minted, refused, refs>>

FillFile(r) ==
  /\ req[r].pc = "fill"
  /\ files' = [files EXCEPT ![req[r].id] = req[r].content]
  /\ Goto(r, "save")
  /\ UNCHANGED <<setting, users, rows, minted, refused, refs>>

(* A failed copy of an upload is removed again, a failed WriteFile is not.   *)
WriteFails(r) ==
  /\ "disk" \in Faults
  /\ req[r].pc = "fill"
  /\ IF req[r].via = "upload" THEN Goto(r, "remove") ELSE End(r)
  /\ UNCHANGED <<setting, users, rows, files, minted, refused, refs>>

RowOf(r) == [owner |-> req[r].user, content |-> req[r].content]
UserThere(r) == Postgres => req[r].user \in users

SaveMedia(r) ==
  /\ req[r].pc = "save"
  /\ UserThere(r)
  /\ rows' = [rows EXCEPT ![req[r].id] = RowOf(r)]
  /\ Goto(r, "attach")
  /\ UNCHANGED <<setting, users, files, minted, refused, refs>>

(* The answer is an error: the user row is gone, the statement failed, or    *)
(* only its answer was lost and the row is there.                            *)
SaveMediaFails(r) ==
  /\ Postgres
  /\ req[r].pc = "save"
  /\ \/ rows' = rows
     \/ /\ "reply" \in Faults /\ UserThere(r)
        /\ rows' = [rows EXCEPT ![req[r].id] = RowOf(r)]
  /\ refused' = refused \cup {req[r].id}
  /\ Goto(r, "remove")
  /\ UNCHANGED <<setting, users, files, minted, refs>>

BadRemoveFile(r) ==
  /\ req[r].pc = "remove"
  /\ End(r)
  /\ UNCHANGED <<setting, users, rows, files, minted, refused, refs>>

(* The error of os.Remove is ignored.                                        *)
RemoveFile(r) ==
  /\ req[r].pc = "remove"
  /\ \/ files' = [files EXCEPT ![req[r].id] = None]
     \/ "disk" \in Faults /\ files' = files
  /\ End(r)
  /\ UNCHANGED <<setting, users, rows, minted, refused, refs>>

(* The digest that holds the URL is saved: by the same request when the      *)
(* image came inline, by the client's next save when it was uploaded.        *)
Attach(r) ==
  /\ req[r].pc = "attach"
  /\ req[r].user \in users
  /\ refs' = refs \cup {[user |-> req[r].user, id |-> req[r].id,
                         content |-> req[r].content]}
  /\ End(r)
  /\ UNCHANGED <<setting, users, rows, files, minted, refused>>

(* GET /api/media/{id}, by anybody: the row, then the file.                  *)
GetMedia(r, m) ==
  /\ req[r] = Idle
  /\ rows[m] # None
  /\ Become(r, [pc |-> "open", id |-> m, content |-> rows[m].content])
  /\ UNCHANGED <<setting, users, rows, files, minted, refused, refs>>

OpenFile(r) ==
  /\ req[r].pc = "open"
  /\ FileThere(req[r].id)
  /\ End(r)
  /\ UNCHANGED <<setting, users, rows, files, minted, refused, refs>>

(* An error before any file is made, of the digest save, or of a download:   *)
(* the handler replies and stops.                                            *)
FailRequest(r) ==
  /\ req[r].pc \in {"find", "stat", "create", "attach", "open"}
  /\ End(r)
  /\ UNCHANGED <<setting, users, rows, files, minted, refused, refs>>

-----------------------------------------------------------------------------
(* A user's digests lose their references with DeleteDigest; media stay.     *)
DropRefs(u) ==
  /\ \E kept \in SUBSET {x \in refs : x.user = u} :
       refs' = {x \in refs : x.user # u} \cup kept
  /\ UNCHANGED <<setting, users, rows, files, minted, refused, req>>

(* The user's digests go; in Postgres so do the media rows.  Files stay.     *)
DeleteUser(u) ==
  /\ u \in users
  /\ users' = users \ {u}
  /\ refs' = {x \in refs : x.user # u}
  /\ rows' = IF Postgres
             THEN [m \in MediaIds |-> IF rows[m] # None /\ rows[m].owner = u
                                      THEN None ELSE rows[m]]
             ELSE rows
  /\ UNCHANGED <<setting, files, minted, refused, req>>

(* The process stops between any two steps; tables and files survive.        *)
Crash ==
  /\ Postgres /\ "crash" \in Faults
  /\ req' = [r \in Requests |-> Idle]
  /\ UNCHANGED <<setting, users, rows, files, minted, refused, refs>>

Next ==
  \/ Crash
  \/ \E u \in Users : DropRefs(u) \/ DeleteUser(u)
  \/ \E r \in Requests :
       \/ \E u \in Users, content \in Contents :
            BeginInline(r, u, content) \/ BeginUpload(r, u, content)
       \/ \E m \in MediaIds : GetMedia(r, m)
       \/ OpenFile(r)
       \/ FindMediaBySHA(r) \/ StatFile(r) \/ CreateFile(r) \/ FillFile(r)
       \/ WriteFails(r) \/ SaveMedia(r) \/ SaveMediaFails(r) \/ RemoveFile(r)
       \/ Attach(r) \/ FailRequest(r)

Spec == Init /\ [][Next]_vars

-----------------------------------------------------------------------------
(* Rows, files, references and requests are of the declared kinds; nothing   *)
(* exists under an id that was never made.                                   *)
TypeOK ==
  /\ setting \in Settings
  /\ users \subseteq Users
  /\ rows \in [MediaIds -> Row \cup {None}]
  /\ files \in [MediaIds -> Contents \cup {Partial, None}]
  /\ minted \in [MediaIds -> Users \cup {None}]
  /\ \A m \in MediaIds : minted[m] = None => rows[m] = None /\ files[m] = None
  /\ refused \subseteq MediaIds
  /\ refs \subseteq Ref
  /\ req \in [Requests -> Request]

(* MediaMeta is the record of one image whose bytes are on disk, all of them, *)
(* but for rows whose save was answered with an error although it had been   *)
(* committed: saveMediaBytes removes the file of such a row.                 *)
AcknowledgedRowsHaveFiles ==
  \A m \in MediaIds \ refused : rows[m] # None => files[m] = rows[m].content

(* GET /api/media/{id} serves the bytes the user put in.                     *)
Resolves(x) == rows[x.id] # None /\ files[x.id] = x.content

(* Every image a digest shows is served, with two exceptions, both over      *)
(* Postgres: the image was first stored by another user, who has been        *)
(* deleted, or the answer to its save was lost.  A crash or a failing disk   *)
(* never costs a stored image, and over MemoryStore nothing does.            *)
OnlyKnownLosses ==
  \A x \in refs :
    \/ Resolves(x)
    \/ Postgres /\ minted[x.id] \notin users
    \/ "reply" \in Faults /\ x.id \in refused

(* A download that found a row answers with the bytes of that row or not at  *)
(* all, whatever happens before it opens the file: browsers keep the answer  *)
(* for a year ("immutable").                                                 *)
DownloadsAreWhole ==
  \A r \in Requests :
    req[r].pc = "open" => files[req[r].id] \in {None, req[r].content}

(* "Don't leave an orphan file with no DB record": short of a crash or a     *)
(* failing disk, a file no request is working on and no row describes was    *)
(* stored for a user who has been deleted since.                             *)
OrphansAreOfDeletedUsers ==
  Faults \cap {"crash", "disk"} = {} =>
    \A m \in MediaIds : files[m] # None /\ rows[m] = None =>
      \/ minted[m] \notin users
      \/ \E r \in Requests : req[r].pc \in {"fill", "save", "remove"} /\ req[r].id = m
=============================================================================
