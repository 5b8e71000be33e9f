----------------------------- MODULE DigestApi -----------------------------
(***************************************************************************)
(* The digest handlers of internal/app/server.go.  Every request runs in a *)
(* goroutine of its own and makes several store calls, none of which is    *)
(* covered by a common lock or transaction: requireUser, then one call for *)
(* a create, a save or a delete, and three for a rollback.  Other requests *)
(* run between any two of them, and so does the deletion of the user.      *)
(***************************************************************************)
EXTENDS DigestStore

CONSTANTS
  Requests,      \* requests that may be in flight at the same time
  Sent,          \* the states clients send
  Blank,         \* a title that is empty after TrimSpace
  Untitled,      \* "Untitled digest"
  DefaultType    \* DigestTypeAnalytical

VARIABLE
  req            \* what each in-flight request has read so far

apiVars == <<vars, req>>

ASSUME DigestApiAssumption ==
  /\ Untitled \in Titles /\ Blank \notin Titles
  /\ DefaultType \in KnownTypes
  /\ Sent \subseteq State

Idle == [pc |-> "idle"]
RevisionIds == DigestIds \X (1..MaxVersion)

RawTitles == Titles \cup {Blank}
RawTypes  == KnownTypes \cup {NoType, UnknownType}
CleanTitle(title) == IF title = Blank THEN Untitled ELSE title
ResolveType(type) == IF type \in KnownTypes THEN type ELSE DefaultType

(* The images the pattern finds become media URLs, a state with a broken    *)
(* one is refused, and data URLs it does not find stay as they are.         *)
Matched(state)   == state.images \in {"inline", "invalid"}
Valid(state)     == state.images # "invalid"
BadNormalize(state) == state
Normalize(state) == IF state.images = "inline" THEN [state EXCEPT !.images = "media"]
                                               ELSE state

Request ==
       {Idle}
  \cup [pc : {"create"}, user : Users, title : Titles, type : KnownTypes, state : State]
  \cup [pc : {"save"}, user : Users, digest : DigestIds, title : Titles,
        type : RawTypes, state : State]
  \cup [pc : {"delete"}, user : Users, digest : DigestIds]
  \cup [pc : {"find"}, user : Users, digest : DigestIds, rev : RevisionIds]
  \cup [pc : {"read"}, user : Users, digest : DigestIds, rev : RevisionIds, state : State]
  \cup [pc : {"write"}, user : Users, digest : DigestIds, rev : RevisionIds, state : State,
        title : Titles, type : KnownTypes \cup {UnknownType}, seen : Nat]

ApiInit == Init /\ req = [r \in Requests |-> Idle]

(* requireUser let the request in; its handler goes on with what it holds. *)
Begin(r, u, held) ==
  /\ req[r] = Idle
  /\ u \in users
  /\ req' = [req EXCEPT ![r] = held]
  /\ UNCHANGED vars

End(r) == req' = [req EXCEPT ![r] = Idle]

-----------------------------------------------------------------------------
BeginCreate(r, u) ==
  \E title \in RawTitles, type \in RawTypes, state \in Sent :
    /\ Valid(state)
    /\ Begin(r, u, [pc |-> "create", user |-> u, title |-> CleanTitle(title),
                    type |-> ResolveType(type), state |-> Normalize(state)])

(* handleImport ends the same way, with another revision label.            *)
FinishCreate(r) ==
  /\ req[r].pc = "create"
  /\ \E d \in DigestIds :
       CreateDigest(req[r].user, d, req[r].title, req[r].type, req[r].state)
  /\ End(r)

(* The type is passed on as the client sent it: empty keeps the stored one. *)
BeginAutosave(r, u, d) ==
  \E title \in RawTitles, type \in RawTypes, state \in Sent :
    /\ Valid(state)
    /\ Begin(r, u, [pc |-> "save", user |-> u, digest |-> d,
                    title |-> CleanTitle(title), type |-> type,
                    state |-> Normalize(state)])

FinishAutosave(r) ==
  /\ req[r].pc = "save"
  /\ AutosaveDigest(req[r].user, req[r].digest, req[r].title, req[r].type, req[r].state)
  /\ End(r)

BeginDelete(r, u, d) == Begin(r, u, [pc |-> "delete", user |-> u, digest |-> d])

FinishDelete(r) ==
  /\ req[r].pc = "delete"
  /\ DeleteDigest(req[r].user, req[r].digest)
  /\ End(r)

-----------------------------------------------------------------------------
(* A rollback reads the revision, then the digest's title and type, and    *)
(* saves the three together as a new version: three separate store calls.  *)
BeginRollback(r, u, d) ==
  \E rev \in RevisionIds :
    Begin(r, u, [pc |-> "find", user |-> u, digest |-> d, rev |-> rev])

BadRevisionOf(d, rev) == {x \in revisions : <<x.digest, x.version>> = rev}
RevisionOf(d, rev) == {x \in revisions : x.digest = d /\ <<x.digest, x.version>> = rev}

FindRevision(r) ==
  /\ req[r].pc = "find"
  /\ Owned(req[r].user, req[r].digest)
  /\ \E x \in RevisionOf(req[r].digest, req[r].rev) :
       /\ Valid(x.state)
       /\ req' = [req EXCEPT ![r] =
            [pc |-> "read", user |-> req[r].user, digest |-> req[r].digest,
             rev |-> req[r].rev, state |-> Normalize(x.state)]]
  /\ UNCHANGED vars

BadCurrentTitle(g) == CleanTitle(Blank)
CurrentTitle(g)    == g.title

ReadCurrent(r) ==
  /\ req[r].pc = "read"
  /\ Owned(req[r].user, req[r].digest)
  /\ LET current == digests[req[r].digest]
     IN req' = [req EXCEPT ![r] =
          [pc |-> "write", user |-> req[r].user, digest |-> req[r].digest,
           rev |-> req[r].rev, state |-> req[r].state,
           title |-> CurrentTitle(current), type |-> current.type,
           seen |-> current.version]]
  /\ UNCHANGED vars

FinishRollback(r) ==
  /\ req[r].pc = "write"
  /\ AutosaveDigest(req[r].user, req[r].digest, req[r].title, req[r].type, req[r].state)
  /\ End(r)

(* The next store call answers with an error (not found, storage error,    *)
(* request context cancelled) or the state cannot be normalized: the       *)
(* handler replies and stops, and the calls it already made stay.          *)
FailRequest(r) ==
  /\ req[r] # Idle
  /\ End(r)
  /\ UNCHANGED vars

(* An administrator's request deletes the account (module Accounts).       *)
RemoveUser(u) == DeleteUser(u) /\ UNCHANGED req

ApiNext ==
  \/ \E u \in Users : RemoveUser(u)
  \/ \E r \in Requests :
       \/ FinishCreate(r) \/ FinishAutosave(r) \/ FinishDelete(r)
       \/ FindRevision(r) \/ ReadCurrent(r) \/ FinishRollback(r)
       \/ FailRequest(r)
       \/ \E u \in Users :
            \/ BeginCreate(r, u)
            \/ \E d \in DigestIds :
                 BeginAutosave(r, u, d) \/ BeginDelete(r, u, d) \/ BeginRollback(r, u, d)

ApiSpec == ApiInit /\ [][ApiNext]_apiVars

-----------------------------------------------------------------------------
(* Every in-flight request holds what its handler has read at that point.    *)
ApiTypeOK == TypeOK /\ req \in [Requests -> Request]

(* The handlers reach the tables only through whole store calls, one a step. *)
HandlersUseStore == Spec

(* The write that ends a rollback by request r.                              *)
RolledBack(r) ==
  /\ req[r].pc = "write"
  /\ req'[r] = Idle
  /\ digests' # digests

(* A rollback puts back the state of the revision it was asked for, taken    *)
(* from this very digest, however many saves ran since it was read: revisions *)
(* do not change between GetRevision and AutosaveDigest.                     *)
RollbackRestoresRevision ==
  [][\A r \in Requests : RolledBack(r) =>
       \E x \in revisions :
         /\ <<x.digest, x.version>> = req[r].rev
         /\ x.digest = req[r].digest
         /\ digests'[x.digest].state = Normalize(x.state)]_apiVars

(* handleRollback keeps the title and type a digest has.  Only a save that   *)
(* slips in between its GetDigest and its AutosaveDigest can make it put an  *)
(* older title back.                                                         *)
RollbackKeepsTitle ==
  [][\A r \in Requests : RolledBack(r) =>
       LET d == req[r].digest
       IN  digests[d].version = req[r].seen =>
             /\ digests'[d].title = digests[d].title
             /\ digests'[d].type = digests[d].type]_apiVars

(* From migration 006 on no image the server could store is written inline:  *)
(* not in a client's state, and not by a rollback to a revision from before  *)
(* that release.  (Data URLs of other types are written as they were sent.)  *)
NoStorableImageInline ==
  [][\A x \in revisions' \ revisions : ~Matched(x.state)]_apiVars

(* A digest changes or disappears only at the hands of a request its owner   *)
(* sent, or with the owner's account, even when the owner is deleted while   *)
(* the request runs.                                                         *)
OnlyOwnerChanges ==
  [][\A d \in issued : digests'[d] # digests[d] =>
       \/ digests[d].owner \notin users'
       \/ \E r \in Requests : /\ req[r] # Idle /\ req'[r] = Idle
                              /\ req[r].user = digests[d].owner]_apiVars
=============================================================================
