---------------------------- MODULE DigestStore ----------------------------
(***************************************************************************)
(* The digest half of the Store interface (internal/app/types.go) as       *)
(* MemoryStore implements it: every call is one critical section under     *)
(* s.mu, so every call is one action here.  This is also the contract the  *)
(* handlers rely on: module PgDigestStore shows that the transactions of   *)
(* PostgresStore implement it, and module DigestApi runs the HTTP handlers *)
(* on top of it.                                                           *)
(*                                                                         *)
(* A call that answers ErrNotFound changes nothing, so it is a stuttering  *)
(* step.  Revision labels and timestamps are left out.                     *)
(***************************************************************************)
EXTENDS Integers, FiniteSets

CONSTANTS
  Users,          \* ids of the accounts that exist at the start
  DigestIds,      \* ids newIDLocked("dig") / gen_random_uuid() hands out
  Titles,         \* digest titles
  KnownTypes,     \* the values DigestType.Valid accepts
  UnknownType,    \* any other digest type a client may send
  NoType,         \* the empty digest type: keep the stored one
  ChecksTypes,    \* TRUE when digest_type_check guards the table (Postgres)
  Edits,          \* the text of a digest, told apart only by equality
  Images,         \* the forms of images in the states that occur
  Legacy,         \* digests found in the database at the start
  None,           \* no digest under this id
  MaxVersion      \* bound on the number of saves of one digest

VARIABLES
  users,          \* accounts that have not been deleted
  digests,        \* digest row under each id, or None
  revisions,      \* revision rows of all digests
  issued          \* ids handed out so far

vars == <<users, digests, revisions, issued>>

(***************************************************************************)
(* The state of a digest is an edit and the form of the images in it: no   *)
(* image, the URL of a stored media file, or a data URL.  Of these,        *)
(* inlineImageDataURLPattern finds base64 of jpeg, png and webp, good ones *)
(* (inline) and such as turn out to be no image (invalid), and no others   *)
(* (foreign: gif, svg).                                                    *)
(***************************************************************************)
ImageForms == {"none", "inline", "invalid", "foreign", "media"}
State  == [edit : Edits, images : Images]
Digest == [owner : Users, title : Titles, type : KnownTypes \cup {UnknownType},
           version : Nat \ {0}, state : State]
Revision == [digest : DigestIds, version : Nat \ {0}, state : State]

ASSUME DigestStoreAssumption ==
  /\ MaxVersion \in Nat
  /\ ChecksTypes \in BOOLEAN
  /\ Images \subseteq ImageForms
  /\ "inline" \in Images => "media" \in Images
  /\ None \notin Digest
  /\ NoType \notin KnownTypes \cup {UnknownType}
  /\ UnknownType \notin KnownTypes
  /\ Legacy \subseteq {g \in Digest : g.version = 1}

FirstRevisions(ids) ==
  {[digest |-> d, version |-> 1, state |-> digests[d].state] : d \in ids}

(* The database already holds digests with one revision each, some with    *)
(* inline images: releases before migration 006 stored them that way.      *)
Init ==
  /\ users = Users
  /\ digests \in [DigestIds -> Legacy \cup {None}]
  /\ issued = {d \in DigestIds : digests[d] # None}
  /\ revisions = FirstRevisions(issued)

(* Definitions named Bad... are never used by the specification: each is a  *)
(* plausible mistake in the definition that follows it.                     *)
BadOwned(u, d) == digests[d] # None
Owned(u, d)    == digests[d] # None /\ digests[d].owner = u

BadFresh(d) == digests[d] = None
Fresh(d)    == d \notin issued

BadHasAccount(u) == TRUE
HasAccount(u)    == u \in users

BadBump(version) == version
Bump(version)    == version + 1

KeptType(old, type) == IF type = NoType THEN old ELSE type

(* The row an autosave leaves: an empty type keeps the stored type.        *)
SavedDigest(g, title, type, state) ==
  [owner |-> g.owner, title |-> title, type |-> KeptType(g.type, type),
   version |-> Bump(g.version), state |-> state]

AcceptsType(type) == type = UnknownType => ~ChecksTypes

CreateDigest(u, d, title, type, state) ==
  /\ HasAccount(u)
  /\ Fresh(d)
  /\ digests' = [digests EXCEPT ![d] =
       [owner |-> u, title |-> title, type |-> type, version |-> 1, state |-> state]]
  /\ revisions' = revisions \cup {[digest |-> d, version |-> 1, state |-> state]}
  /\ issued' = issued \cup {d}
  /\ UNCHANGED users

AutosaveDigest(u, d, title, type, state) ==
  /\ Owned(u, d)
  /\ AcceptsType(type)
  /\ digests[d].version < MaxVersion
  /\ LET saved == SavedDigest(digests[d], title, type, state)
     IN  /\ digests' = [digests EXCEPT ![d] = saved]
         /\ revisions' = revisions \cup
              {[digest |-> d, version |-> saved.version, state |-> state]}
  /\ UNCHANGED <<users, issued>>

(* Forget a set of digests together with their revisions.                  *)
Drop(ids) ==
  /\ digests' = [d \in DigestIds |-> IF d \in ids THEN None ELSE digests[d]]
  /\ revisions' = {x \in revisions : x.digest \notin ids}

DeleteDigest(u, d) ==
  /\ Owned(u, d)
  /\ Drop({d})
  /\ UNCHANGED <<users, issued>>

DeleteUser(u) ==
  /\ u \in users
  /\ users' = users \ {u}
  /\ Drop({d \in DigestIds : Owned(u, d)})
  /\ UNCHANGED issued

Next ==
  \E u \in Users :
    \/ DeleteUser(u)
    \/ \E d \in DigestIds :
         \/ DeleteDigest(u, d)
         \/ \E title \in Titles, type \in KnownTypes, state \in State :
              CreateDigest(u, d, title, type, state)
         \/ \E title \in Titles, type \in KnownTypes \cup {NoType, UnknownType},
               state \in State :
              AutosaveDigest(u, d, title, type, state)

Spec == Init /\ [][Next]_vars
-----------------------------------------------------------------------------
(* The tables hold digest rows, revision rows and ids of the declared kinds, *)
(* and no row exists for an id that was never handed out.                    *)
TypeOK ==
  /\ users \subseteq Users
  /\ issued \subseteq DigestIds
  /\ digests \in [DigestIds -> Digest \cup {None}]
  /\ \A d \in DigestIds \ issued : digests[d] = None
  /\ revisions \subseteq Revision

(* The history a client can roll back to is complete: a digest at version n  *)
(* has exactly one revision under each of 1..n, the latest one holds the     *)
(* current state, and a deleted digest leaves no revision behind.            *)
HistoryComplete ==
  /\ \A x \in revisions :
       digests[x.digest] # None /\ x.version \in 1..digests[x.digest].version
  /\ \A x, y \in revisions :
       x.digest = y.digest /\ x.version = y.version => x = y
  /\ \A d \in DigestIds : digests[d] # None =>
       /\ \A v \in 1..digests[d].version :
            \E x \in revisions : x.digest = d /\ x.version = v
       /\ [digest |-> d, version |-> digests[d].version,
           state |-> digests[d].state] \in revisions

(* No digest outlives its owner's account, whichever way a create races the  *)
(* deletion of the user.                                                     *)
OwnersExist ==
  \A d \in DigestIds : digests[d] # None => digests[d].owner \in users

(* A deleted digest stays deleted and a live one never loses or rewrites a   *)
(* revision: a late autosave or rollback neither revives nor overwrites.     *)
HistoryIsAppendOnly ==
  [][\A d \in issued :
       /\ digests[d] = None => digests'[d] = None
       /\ digests'[d] # None =>
            {x \in revisions : x.digest = d} \subseteq revisions']_vars
=============================================================================
