---------------------------- MODULE PgDigestApi ----------------------------
(***************************************************************************)
(* The digest handlers over PostgresStore, as the server runs them: the    *)
(* reads of a handler are statements of their own, and its last store call *)
(* is a transaction of several statements (module PgDigestStore), between  *)
(* which other requests, also those of an administrator who deletes users, *)
(* read and write.  A request runs its transaction on a connection of its  *)
(* own, under the request's name; the other connections of the pool serve  *)
(* the deletions of users.                                                 *)
(***************************************************************************)
EXTENDS PgDigestStore

CONSTANTS Requests, Sent, Blank, Untitled, DefaultType    \* as in DigestApi

VARIABLE req            \* what each in-flight request has read so far

Api == INSTANCE DigestApi

ASSUME PgApiAssumption == Api!DigestApiAssumption /\ Requests \subseteq Tx

pgApiVars == <<users, digests, revisions, issued, tx, req>>

PgApiInit == PgInit /\ req = [r \in Requests |-> Api!Idle]

(* requireUser, GetRevision and GetDigest each read committed rows once.    *)
Read(r) ==
  /\ \/ Api!FindRevision(r) \/ Api!ReadCurrent(r)
     \/ \E u \in Users :
          \/ Api!BeginCreate(r, u)
          \/ \E d \in DigestIds : \/ Api!BeginAutosave(r, u, d) \/ Api!BeginDelete(r, u, d)
                                  \/ Api!BeginRollback(r, u, d)
  /\ UNCHANGED tx

-----------------------------------------------------------------------------
(* The last store call of a create, an autosave or a rollback: BEGIN and    *)
(* the first statement, the second statement, COMMIT and the answer.        *)
StartCreate(r) ==
  /\ req[r].pc = "create"
  /\ \E d \in DigestIds :
       InsertDigest(r, req[r].user, d, req[r].title, req[r].type, req[r].state)
  /\ UNCHANGED req

StartSave(r) ==
  /\ req[r].pc \in {"save", "write"}
  /\ UpdateDigest(r, req[r].user, req[r].digest, req[r].title, req[r].type, req[r].state)
  /\ UNCHANGED req

LogRevision(r) == InsertRevision(r) /\ UNCHANGED req

Finish(r) == Commit(r) /\ Api!End(r)

FinishDelete(r) ==
  /\ req[r].pc = "delete"
  /\ DeleteDigest(r, req[r].user, req[r].digest)
  /\ Api!End(r)

(* A statement fails, as the victim of a deadlock too, finds no row, or the *)
(* context is cancelled: the handler rolls back, if it had begun, and gives *)
(* up.  Without defer tx.Rollback() its transaction would stay open on the  *)
(* connection and end with the next commit there.                           *)
BadFailRequest(r) == req[r] # Api!Idle /\ Api!End(r) /\ UNCHANGED <<tables, tx>>

FailRequest(r) ==
  /\ req[r] # Api!Idle
  /\ Api!End(r)
  /\ Become(r, Closed)
  /\ UNCHANGED tables

(* DeleteUser, for an administrator's request.                              *)
RemoveUser(t) ==
  /\ \/ \E u \in Users : LockUser(t, u)
     \/ LockDigest(t) \/ CommitDeleteUser(t) \/ Abort(t)
  /\ UNCHANGED req

PgApiNext ==
  \/ \E r \in Requests :
       \/ Read(r) \/ StartCreate(r) \/ StartSave(r) \/ LogRevision(r) \/ Finish(r)
       \/ FinishDelete(r) \/ FailRequest(r)
  \/ \E t \in Tx \ Requests : RemoveUser(t)

PgApiSpec == PgApiInit /\ [][PgApiNext]_pgApiVars

-----------------------------------------------------------------------------
(* Over Postgres the handlers do what they do over a store of atomic calls:  *)
(* no statement of another request between theirs makes a difference, and a *)
(* transaction carries exactly what its request holds.                       *)
ImplementsApi == Api!ApiSpec

(* So what DigestApi says of a rollback holds statement by statement: it     *)
(* puts back the revision it was asked for, of this very digest.             *)
RollbackRestoresRevision == Api!RollbackRestoresRevision

(* So does what it says of ownership, with the deletion of the owner at work *)
(* between the statements of a request.                                      *)
OnlyOwnerChanges == Api!OnlyOwnerChanges

(* And the handlers use transactions as PgDigestStore assumes they are used. *)
HandlersUseTransactions == PgSpec
=============================================================================
