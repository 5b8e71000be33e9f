--------------------------- MODULE PgDigestStore ---------------------------
(***************************************************************************)
(* PostgresStore's digest operations, statement by statement.  The tables  *)
(* hold committed rows; what a transaction has written so far is in tx.    *)
(* Postgres itself is modelled from how the code uses it, at its default   *)
(* READ COMMITTED level:                                                   *)
(*   - UPDATE and DELETE lock the digest row and wait for the transaction  *)
(*     that holds it, then go by the newest committed row;                 *)
(*   - inserting a row with a user_id shares a lock on the user row, which *)
(*     a deletion of that user excludes (REFERENCES users(id));            *)
(*   - deleting a user locks and deletes its digests one after another     *)
(*     (ON DELETE CASCADE);                                                *)
(*   - one transaction of a cycle of waiting ones is aborted;              *)
(*   - a failed statement, a lost connection, a cancelled request context  *)
(*     or a crash of the server aborts the transaction.                    *)
(* What a transaction holds follows from the statements it has executed.   *)
(***************************************************************************)
EXTENDS Integers

CONSTANTS Users, DigestIds, Titles, KnownTypes, UnknownType, NoType, ChecksTypes,
          Edits, Images, Legacy, None, MaxVersion,
          Tx            \* connections of the pool that run a transaction

VARIABLES users, digests, revisions, issued,
          tx            \* the open transaction of each connection

Store == INSTANCE DigestStore

ASSUME PgAssumption == Store!DigestStoreAssumption

tables == <<users, digests, revisions, issued>>
pgVars == <<users, digests, revisions, issued, tx>>

(* The states handlers save: normalizeState has replaced what it can store.  *)
Storable == {state \in Store!State : state.images \notin {"inline", "invalid"}}

(* A create or an autosave has run its first statement ("row") or both      *)
(* ("logged"); the deletion of a user collects the locks of its digests.    *)
Closed == [op |-> "none"]
Transaction ==
       {Closed}
  \cup [op : {"create", "autosave"}, pc : {"row", "logged"}, user : Users,
        digest : DigestIds, row : Store!Digest, version : Nat \ {0}]
  \cup [op : {"deleteUser"}, user : Users, locked : SUBSET DigestIds]

Writing(t) == tx[t].op \in {"create", "autosave"}

HoldsDigest(t, d) ==
  \/ tx[t].op = "autosave" /\ tx[t].digest = d
  \/ tx[t].op = "deleteUser" /\ d \in tx[t].locked

SharesUser(t, u) ==
  /\ Writing(t) /\ tx[t].user = u
  /\ tx[t].op = "create" \/ tx[t].pc = "logged"

HoldsUser(t, u) == tx[t].op = "deleteUser" /\ tx[t].user = u

BadDigestUnlocked(t, d) == TRUE
DigestUnlocked(t, d) == \A s \in Tx \ {t} : ~HoldsDigest(s, d)
UserUndeleted(t, u) == u \in users /\ \A s \in Tx \ {t} : ~HoldsUser(s, u)

PgInit == Store!Init /\ tx = [t \in Tx |-> Closed]

Become(t, next) == tx' = [tx EXCEPT ![t] = next]

-----------------------------------------------------------------------------
(* INSERT INTO digests ... RETURNING: gen_random_uuid names the row.        *)
InsertDigest(t, u, d, title, type, state) ==
  /\ tx[t] = Closed
  /\ UserUndeleted(t, u)
  /\ d \notin issued
  /\ \A s \in Tx : Writing(s) => tx[s].digest # d
  /\ Become(t, [op |-> "create", pc |-> "row", user |-> u, digest |-> d,
                row |-> [owner |-> u, title |-> title, type |-> type,
                         version |-> 1, state |-> state],
                version |-> 1])
  /\ UNCHANGED tables

(* UPDATE digests SET ... current_version = current_version + 1 RETURNING.  *)
UpdateDigest(t, u, d, title, type, state) ==
  /\ tx[t] = Closed
  /\ Store!Owned(u, d)
  /\ DigestUnlocked(t, d)
  /\ Store!AcceptsType(type)
  /\ digests[d].version < MaxVersion
  /\ LET saved == Store!SavedDigest(digests[d], title, type, state)
     IN  Become(t, [op |-> "autosave", pc |-> "row", user |-> u, digest |-> d,
                    row |-> saved, version |-> saved.version])
  /\ UNCHANGED tables

VersionTaken(d, version) ==
  \E x \in revisions : x.digest = d /\ x.version = version

RevisionRow(t) ==
  [digest |-> tx[t].digest, version |-> tx[t].version, state |-> tx[t].row.state]

(* The second statement run on the pool instead of the transaction.         *)
BadInsertRevision(t) ==
  /\ Writing(t) /\ tx[t].pc = "row"
  /\ UserUndeleted(t, tx[t].user)
  /\ ~VersionTaken(tx[t].digest, tx[t].version)
  /\ tx' = [tx EXCEPT ![t].pc = "logged"]
  /\ revisions' = revisions \cup {RevisionRow(t)}
  /\ UNCHANGED <<users, digests, issued>>

(* INSERT INTO digest_revisions: refused when the version exists already.   *)
InsertRevision(t) ==
  /\ Writing(t) /\ tx[t].pc = "row"
  /\ UserUndeleted(t, tx[t].user)
  /\ ~VersionTaken(tx[t].digest, tx[t].version)
  /\ tx' = [tx EXCEPT ![t].pc = "logged"]
  /\ UNCHANGED tables

(* COMMIT publishes both rows.                                              *)
Commit(t) ==
  /\ Writing(t) /\ tx[t].pc = "logged"
  /\ digests' = [digests EXCEPT ![tx[t].digest] = tx[t].row]
  /\ revisions' = revisions \cup {RevisionRow(t)}
  /\ issued' = issued \cup {tx[t].digest}
  /\ Become(t, Closed)
  /\ UNCHANGED users

(* One statement outside a transaction: it waits, deletes and commits.      *)
DeleteDigest(t, u, d) ==
  /\ tx[t] = Closed
  /\ DigestUnlocked(t, d)
  /\ Store!DeleteDigest(u, d)
  /\ UNCHANGED tx

-----------------------------------------------------------------------------
(* DELETE FROM users locks the user's row, ...                              *)
LockUser(t, u) ==
  /\ tx[t] = Closed
  /\ UserUndeleted(t, u)
  /\ \A s \in Tx \ {t} : ~SharesUser(s, u)
  /\ Become(t, [op |-> "deleteUser", user |-> u, locked |-> {}])
  /\ UNCHANGED tables

ToLock(t) == {d \in DigestIds : Store!Owned(tx[t].user, d)} \ tx[t].locked

(* ... cascades to the user's digests one by one, ...                       *)
LockDigest(t) ==
  /\ tx[t].op = "deleteUser"
  /\ \E d \in ToLock(t) :
       /\ DigestUnlocked(t, d)
       /\ tx' = [tx EXCEPT ![t].locked = @ \cup {d}]
  /\ UNCHANGED tables

(* ... and commits when it has deleted them all.                            *)
CommitDeleteUser(t) ==
  /\ tx[t].op = "deleteUser"
  /\ ToLock(t) = {}
  /\ Store!DeleteUser(tx[t].user)
  /\ Become(t, Closed)

-----------------------------------------------------------------------------
(* Without defer tx.Rollback() a failed transaction stays open.              *)
BadAbort(t) == tx[t] # Closed /\ UNCHANGED pgVars

Abort(t) ==
  /\ tx[t] # Closed
  /\ Become(t, Closed)
  /\ UNCHANGED tables

WaitsFor(t, s) ==
  \/ /\ Writing(t) /\ tx[t].pc = "row"
     /\ HoldsUser(s, tx[t].user)
  \/ /\ tx[t].op = "deleteUser"
     /\ ToLock(t) # {} /\ \A d \in ToLock(t) : ~DigestUnlocked(t, d)
     /\ \E d \in ToLock(t) : HoldsDigest(s, d)

Deadlocked(t) == \E s \in Tx \ {t} : WaitsFor(t, s) /\ WaitsFor(s, t)

(* The deadlock detector picks a victim among the transactions of a cycle.  *)
BreakDeadlock(t) == Deadlocked(t) /\ Abort(t)

Step(t) == InsertRevision(t) \/ Commit(t) \/ LockDigest(t) \/ CommitDeleteUser(t)

PgNext ==
  \E t \in Tx :
    \/ Step(t) \/ Abort(t) \/ BreakDeadlock(t)
    \/ \E u \in Users :
         \/ LockUser(t, u)
         \/ \E d \in DigestIds :
              \/ DeleteDigest(t, u, d)
              \/ \E title \in Titles, state \in Storable :
                   \/ \E type \in KnownTypes : InsertDigest(t, u, d, title, type, state)
                   \/ \E type \in KnownTypes \cup {NoType, UnknownType} :
                        UpdateDigest(t, u, d, title, type, state)

PgSpec == PgInit /\ [][PgNext]_pgVars

(* The code issues the next statement of a transaction as soon as the last  *)
(* one returned, Postgres grants a lock in the order of the requests, and   *)
(* it looks for deadlocks.  Nothing makes a statement fail.                 *)
Fairness ==
  \A t \in Tx : /\ SF_pgVars(InsertRevision(t)) /\ WF_pgVars(Commit(t))
                /\ SF_pgVars(LockDigest(t)) /\ WF_pgVars(CommitDeleteUser(t))
                /\ WF_pgVars(BreakDeadlock(t))

FairPgSpec == PgSpec /\ Fairness

-----------------------------------------------------------------------------
(* The committed tables and the open transactions are of the declared kinds. *)
PgTypeOK == Store!TypeOK /\ tx \in [Tx -> Transaction]

(* At every moment, also half way through a save or after its abort, the     *)
(* committed tables are well typed, every version of a digest has its        *)
(* revision (DigestStore), and no digest outlives its owner's account.       *)
TablesCorrect == PgTypeOK /\ Store!HistoryComplete /\ Store!OwnersExist

(* Each transaction takes effect as one atomic store call, at its commit:    *)
(* PostgresStore keeps the contract MemoryStore keeps with its mutex.        *)
ImplementsStore == Store!Spec

(* UNIQUE (digest_id, version) never fails a save: the row lock an autosave  *)
(* holds from its UPDATE on keeps the version it was given free.             *)
VersionsAreFree ==
  \A t \in Tx : Writing(t) => ~VersionTaken(tx[t].digest, tx[t].version)

(* An autosave and the deletion of its user can wait for each other, the one *)
(* for the user row, the other for the digest; the transaction still ends.   *)
TransactionsEnd == \A t \in Tx : tx[t] # Closed ~> tx[t] = Closed
=============================================================================
