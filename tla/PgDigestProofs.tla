--------------------------- MODULE PgDigestProofs ---------------------------
(***************************************************************************)
(* The transactions of PostgresStore implement the atomic calls of module  *)
(* DigestStore, and the handlers that run them implement module DigestApi, *)
(* for any number of connections, requests, users, digests and saves.  The *)
(* argument is that the locks a transaction holds keep what it read of the *)
(* committed rows true until its commit, and that it carries what its      *)
(* request holds.                                                          *)
(***************************************************************************)
EXTENDS PgDigestApi, TLAPS

Contract == INSTANCE DigestProofs

(***************************************************************************)
(* What module DigestProofs says of the tables, under the name Store.      *)
(***************************************************************************)
StoreInv == Store!TypeOK /\ Store!HistoryComplete /\ Store!OwnersExist

LEMMA ContractAssumption == Contract!DigestStoreAssumption /\ Contract!DigestApiAssumption
BY PgAssumption, PgApiAssumption
DEF Store!DigestStoreAssumption, Contract!DigestStoreAssumption,
    Api!DigestApiAssumption, Contract!DigestApiAssumption, Store!Digest, Contract!Digest,
    Store!State, Contract!State, Store!ImageForms, Contract!ImageForms, Api!State

(* Both names stand for the same tables and calls.                          *)
LEMMA StoreIsContract ==
  /\ Store!Init <=> Contract!Init
  /\ Store!TypeOK <=> Contract!TypeOK
  /\ Store!HistoryComplete <=> Contract!HistoryComplete
  /\ Store!OwnersExist <=> Contract!OwnersExist
  /\ [Store!Next]_Store!vars <=> [Contract!Next]_Contract!vars
<1> USE DEF Store!Digest, Contract!Digest, Store!Revision, Contract!Revision,
            Store!State, Contract!State, Store!ImageForms, Contract!ImageForms
<1>1. Store!Init <=> Contract!Init
  BY DEF Store!Init, Contract!Init, Store!FirstRevisions, Contract!FirstRevisions
<1>2. Store!TypeOK <=> Contract!TypeOK
  BY DEF Store!TypeOK, Contract!TypeOK
<1>3. Store!HistoryComplete <=> Contract!HistoryComplete
  BY DEF Store!HistoryComplete, Contract!HistoryComplete
<1>4. Store!OwnersExist <=> Contract!OwnersExist
  BY DEF Store!OwnersExist, Contract!OwnersExist
<1>5. [Store!Next]_Store!vars <=> [Contract!Next]_Contract!vars
  BY DEF Store!Next, Contract!Next, Store!vars, Contract!vars,
     Store!DeleteUser, Contract!DeleteUser, Store!DeleteDigest, Contract!DeleteDigest,
     Store!CreateDigest, Contract!CreateDigest,
     Store!AutosaveDigest, Contract!AutosaveDigest, Store!Owned, Contract!Owned,
     Store!Fresh, Contract!Fresh, Store!HasAccount, Contract!HasAccount,
     Store!Drop, Contract!Drop, Store!AcceptsType, Contract!AcceptsType,
     Store!SavedDigest, Contract!SavedDigest, Store!KeptType, Contract!KeptType,
     Store!Bump, Contract!Bump
<1> QED
  BY <1>1, <1>2, <1>3, <1>4, <1>5

LEMMA StoreInvInit == Store!Init => StoreInv
<1>1. Store!Init => Store!OwnersExist
  BY PgAssumption DEF Store!Init, Store!OwnersExist, Store!Digest,
     Store!DigestStoreAssumption
<1> QED
  BY <1>1, StoreIsContract, Contract!InitType, Contract!InitHistory, ContractAssumption
  DEF StoreInv

LEMMA StoreInvStep == StoreInv /\ [Store!Next]_Store!vars => StoreInv'
<1> SUFFICES ASSUME StoreInv, [Store!Next]_Store!vars PROVE StoreInv'
  OBVIOUS
<1>1. Contract!TypeOK' /\ Contract!HistoryComplete' /\ Contract!OwnersExist'
  BY StoreIsContract, Contract!TypeStep, Contract!HistoryStep, Contract!OwnersStep,
     ContractAssumption DEF StoreInv
<1>2. /\ Contract!TypeOK' => Store!TypeOK'
      /\ Contract!HistoryComplete' => Store!HistoryComplete'
      /\ Contract!OwnersExist' => Store!OwnersExist'
  BY StoreIsContract, PTL
<1> QED
  BY <1>1, <1>2 DEF StoreInv

LEMMA StoreSavedDigest ==
  ASSUME NEW g \in Store!Digest, NEW title \in Titles, NEW state \in Store!State,
         NEW type \in KnownTypes \cup {NoType, UnknownType}
  PROVE  /\ Store!SavedDigest(g, title, type, state) \in Store!Digest
         /\ Store!SavedDigest(g, title, type, state).version = g.version + 1
         /\ Store!SavedDigest(g, title, type, state).state = state
BY PgAssumption DEF Store!SavedDigest, Store!KeptType, Store!Bump, Store!Digest,
   Store!DigestStoreAssumption

(***************************************************************************)
(* The inductive invariant.  Locks exclude each other; what a create       *)
(* inserted is still new and its user still there; what an autosave        *)
(* updated is still the row it read.                                       *)
(***************************************************************************)
LocksExclude ==
  \A t, s \in Tx : s # t =>
    /\ \A d \in DigestIds : HoldsDigest(t, d) => ~HoldsDigest(s, d)
    /\ \A u \in Users : HoldsUser(t, u) => ~HoldsUser(s, u) /\ ~SharesUser(s, u)

CreateStands(t) ==
  /\ tx[t].user \in users
  /\ tx[t].digest \notin issued
  /\ \A s \in Tx \ {t} : Writing(s) => tx[s].digest # tx[t].digest
  /\ tx[t].version = 1
  /\ \E title \in Titles, type \in KnownTypes, state \in Store!State :
       tx[t].row = [owner |-> tx[t].user, title |-> title, type |-> type,
                    version |-> 1, state |-> state]

AutosaveStands(t) ==
  /\ Store!Owned(tx[t].user, tx[t].digest)
  /\ digests[tx[t].digest].version < MaxVersion
  /\ tx[t].version = digests[tx[t].digest].version + 1
  /\ \E title \in Titles, type \in KnownTypes \cup {NoType, UnknownType},
        state \in Store!State :
       /\ Store!AcceptsType(type)
       /\ tx[t].row = Store!SavedDigest(digests[tx[t].digest], title, type, state)

TxStands ==
  \A t \in Tx : /\ tx[t].op = "create" => CreateStands(t)
                /\ tx[t].op = "autosave" => AutosaveStands(t)

PgInv == tx \in [Tx -> Transaction] /\ LocksExclude /\ TxStands

LEMMA PgInvInit == PgInit => PgInv
BY DEF PgInit, PgInv, LocksExclude, TxStands, HoldsDigest, HoldsUser, SharesUser,
   Writing, Transaction, Closed

(***************************************************************************)
(* What stands for a transaction keeps standing while the rows it relies   *)
(* on stay and no other transaction takes up its digest.                   *)
(***************************************************************************)
SameWrite(t) ==
  /\ tx'[t].user = tx[t].user /\ tx'[t].digest = tx[t].digest
  /\ tx'[t].row = tx[t].row   /\ tx'[t].version = tx[t].version

LEMMA CreateKeepsStanding ==
  ASSUME NEW t \in Tx, CreateStands(t), SameWrite(t),
         tx[t].user \in users', tx[t].digest \notin issued',
         \A s \in Tx \ {t} : Writing(s)' =>
            \/ Writing(s) /\ tx'[s].digest = tx[s].digest
            \/ tx'[s].digest # tx[t].digest
  PROVE  CreateStands(t)'
<1>1. \A s \in Tx \ {t} : Writing(s)' => tx'[s].digest # tx'[t].digest
  BY DEF CreateStands, SameWrite
<1>2. \E title \in Titles, type \in KnownTypes, state \in Store!State :
        tx'[t].row = [owner |-> tx'[t].user, title |-> title, type |-> type,
                      version |-> 1, state |-> state]
  BY DEF CreateStands, SameWrite
<1> QED
  BY <1>1, <1>2 DEF CreateStands, SameWrite

LEMMA AutosaveKeepsStanding ==
  ASSUME NEW t \in Tx, AutosaveStands(t), SameWrite(t),
         digests'[tx[t].digest] = digests[tx[t].digest]
  PROVE  AutosaveStands(t)'
BY DEF AutosaveStands, SameWrite, Store!Owned, Store!AcceptsType

(***************************************************************************)
(* A step that only ends or starts one transaction.                        *)
(***************************************************************************)
LEMMA Closing ==
  ASSUME PgInv, NEW t \in Tx, Become(t, Closed), UNCHANGED tables
  PROVE  PgInv'
<1>1. /\ tx'[t] = Closed /\ \A s \in Tx \ {t} : tx'[s] = tx[s]
      /\ tx' \in [Tx -> Transaction]
  BY DEF Become, PgInv, Transaction
<1>2. UNCHANGED <<users, digests, revisions, issued>>
  BY DEF tables
<1>3. LocksExclude'
  BY <1>1 DEF PgInv, LocksExclude, HoldsDigest, HoldsUser, SharesUser, Writing, Closed
<1>4. ASSUME NEW s \in Tx, tx'[s].op = "create" PROVE CreateStands(s)'
  <2>1. s # t /\ CreateStands(s)
    BY <1>1, <1>4 DEF PgInv, TxStands, Closed
  <2>2. \A r \in Tx : Writing(r)' => Writing(r) /\ tx'[r] = tx[r]
    BY <1>1 DEF Writing, Closed
  <2> QED
    BY <1>1, <1>2, <2>1, <2>2, CreateKeepsStanding DEF CreateStands, SameWrite
<1>5. ASSUME NEW s \in Tx, tx'[s].op = "autosave" PROVE AutosaveStands(s)'
  <2>1. s # t /\ AutosaveStands(s)
    BY <1>1, <1>5 DEF PgInv, TxStands, Closed
  <2> QED
    BY <1>1, <1>2, <2>1, AutosaveKeepsStanding DEF SameWrite
<1> QED
  BY <1>1, <1>3, <1>4, <1>5 DEF PgInv, TxStands

LEMMA InsertDigestInv ==
  ASSUME StoreInv, PgInv, NEW t \in Tx, NEW u \in Users, NEW d \in DigestIds,
         NEW title \in Titles, NEW type \in KnownTypes, NEW state \in Store!State,
         InsertDigest(t, u, d, title, type, state)
  PROVE  PgInv'
<1> DEFINE row  == [owner |-> u, title |-> title, type |-> type, version |-> 1,
                    state |-> state]
           next == [op |-> "create", pc |-> "row", user |-> u, digest |-> d,
                    row |-> row, version |-> 1]
<1>1. /\ UNCHANGED <<users, digests, revisions, issued>>
      /\ d \notin issued /\ u \in users
      /\ \A s \in Tx \ {t} : ~HoldsUser(s, u)
      /\ \A s \in Tx : Writing(s) => tx[s].digest # d
  BY DEF InsertDigest, tables, UserUndeleted
<1>2. next \in Transaction
  BY DEF Transaction, Store!Digest
<1>3. /\ tx'[t] = next /\ \A s \in Tx \ {t} : tx'[s] = tx[s]
      /\ tx' \in [Tx -> Transaction]
  BY <1>2 DEF InsertDigest, Become, PgInv
<1>4. LocksExclude'
  BY <1>1, <1>3 DEF PgInv, LocksExclude, HoldsDigest, HoldsUser, SharesUser, Writing
<1>5. CreateStands(t)'
  <2>1. \A s \in Tx \ {t} : Writing(s)' => tx'[s].digest # d
    BY <1>1, <1>3 DEF Writing
  <2> QED
    BY <1>1, <1>3, <2>1 DEF CreateStands
<1>6. ASSUME NEW s \in Tx \ {t}, tx'[s].op = "create" PROVE CreateStands(s)'
  <2>1. CreateStands(s) /\ Writing(s)
    BY <1>3, <1>6 DEF PgInv, TxStands, Writing
  <2>2. \A r \in Tx \ {t} : Writing(r)' => Writing(r) /\ tx'[r].digest = tx[r].digest
    BY <1>3 DEF Writing
  <2>3. tx'[t].digest # tx[s].digest
    BY <1>1, <1>3, <2>1
  <2>4. tx[s].user \in users' /\ tx[s].digest \notin issued' /\ SameWrite(s)
    BY <1>1, <1>3, <2>1 DEF CreateStands, SameWrite
  <2> QED
    BY <2>1, <2>2, <2>3, <2>4, CreateKeepsStanding
<1>7. ASSUME NEW s \in Tx, tx'[s].op = "autosave" PROVE AutosaveStands(s)'
  <2>1. s # t /\ AutosaveStands(s)
    BY <1>3, <1>7 DEF PgInv, TxStands
  <2> QED
    BY <1>1, <1>3, <2>1, AutosaveKeepsStanding DEF SameWrite
<1> QED
  BY <1>3, <1>4, <1>5, <1>6, <1>7 DEF PgInv, TxStands

LEMMA UpdateDigestInv ==
  ASSUME StoreInv, PgInv, NEW t \in Tx, NEW u \in Users, NEW d \in DigestIds,
         NEW title \in Titles, NEW type \in KnownTypes \cup {NoType, UnknownType},
         NEW state \in Store!State, UpdateDigest(t, u, d, title, type, state)
  PROVE  PgInv'
<1> DEFINE saved == Store!SavedDigest(digests[d], title, type, state)
           next  == [op |-> "autosave", pc |-> "row", user |-> u, digest |-> d,
                     row |-> saved, version |-> saved.version]
<1>1. /\ UNCHANGED <<users, digests, revisions, issued>>
      /\ Store!Owned(u, d) /\ Store!AcceptsType(type)
      /\ digests[d].version < MaxVersion
      /\ \A s \in Tx \ {t} : ~HoldsDigest(s, d)
      /\ tx' = [tx EXCEPT ![t] = next]
  BY DEF UpdateDigest, tables, DigestUnlocked, Become
<1>2. digests[d] \in Store!Digest
  BY <1>1 DEF StoreInv, Store!TypeOK, Store!Owned
<1>3. saved \in Store!Digest /\ saved.version = digests[d].version + 1
  BY <1>2, StoreSavedDigest
<1> HIDE DEF saved
<1>4. d \in issued
  BY <1>1 DEF StoreInv, Store!TypeOK, Store!Owned
<1>5. next \in Transaction
  BY <1>3 DEF Transaction, Store!Digest
<1>6. /\ tx'[t] = next /\ \A s \in Tx \ {t} : tx'[s] = tx[s]
      /\ tx' \in [Tx -> Transaction]
  BY <1>1, <1>5 DEF PgInv
<1>7. LocksExclude'
  BY <1>1, <1>6 DEF PgInv, LocksExclude, HoldsDigest, HoldsUser, SharesUser, Writing
<1>8. AutosaveStands(t)'
  <2>1. /\ tx'[t].row = Store!SavedDigest(digests[d], title, type, state)
        /\ tx'[t].user = u /\ tx'[t].digest = d /\ tx'[t].version = saved.version
    BY <1>6 DEF saved
  <2>2. Store!Owned(u, d)' /\ Store!AcceptsType(type)'
    BY <1>1 DEF Store!Owned, Store!AcceptsType
  <2> QED
    BY <1>1, <1>3, <2>1, <2>2 DEF AutosaveStands, Store!Owned
<1>9. ASSUME NEW s \in Tx, tx'[s].op = "create" PROVE CreateStands(s)'
  <2>1. s # t /\ tx[s].op = "create" /\ CreateStands(s)
    BY <1>6, <1>9 DEF PgInv, TxStands
  <2>2. tx[s].digest # d
    BY <1>4, <2>1 DEF CreateStands
  <2>3. \A r \in Tx \ {t} : Writing(r)' => Writing(r) /\ tx'[r].digest = tx[r].digest
    BY <1>6 DEF Writing
  <2>4. tx[s].user \in users' /\ tx[s].digest \notin issued' /\ SameWrite(s)
    BY <1>1, <1>6, <2>1 DEF CreateStands, SameWrite
  <2>5. tx'[t].digest # tx[s].digest
    BY <1>6, <2>2
  <2> QED
    BY <2>1, <2>3, <2>4, <2>5, CreateKeepsStanding
<1>10. ASSUME NEW s \in Tx \ {t}, tx'[s].op = "autosave" PROVE AutosaveStands(s)'
  BY <1>1, <1>6, <1>10, AutosaveKeepsStanding DEF PgInv, TxStands, SameWrite
<1> QED
  BY <1>6, <1>7, <1>8, <1>9, <1>10 DEF PgInv, TxStands

LEMMA InsertRevisionInv ==
  ASSUME PgInv, NEW t \in Tx, InsertRevision(t)
  PROVE  PgInv'
<1>1. /\ UNCHANGED <<users, digests, revisions, issued>>
      /\ Writing(t) /\ tx[t].pc = "row"
      /\ \A s \in Tx \ {t} : ~HoldsUser(s, tx[t].user)
      /\ tx' = [tx EXCEPT ![t].pc = "logged"]
  BY DEF InsertRevision, tables, UserUndeleted
<1>2. /\ tx' \in [Tx -> Transaction]
      /\ \A s \in Tx \ {t} : tx'[s] = tx[s]
      /\ tx'[t].op = tx[t].op /\ SameWrite(t)
  <2>1. /\ tx[t] \in [op : {"create", "autosave"}, pc : {"row", "logged"}, user : Users,
                       digest : DigestIds, row : Store!Digest, version : Nat \ {0}]
        /\ tx'[t] = [tx[t] EXCEPT !.pc = "logged"]
        /\ \A s \in Tx \ {t} : tx'[s] = tx[s]
    BY <1>1 DEF PgInv, Transaction, Writing, Closed
  <2>2. tx'[t] \in Transaction
    BY <2>1 DEF Transaction
  <2> QED
    BY <1>1, <2>1, <2>2 DEF PgInv, SameWrite
<1>3. LocksExclude'
  BY <1>1, <1>2 DEF PgInv, LocksExclude, HoldsDigest, HoldsUser, SharesUser, Writing,
     SameWrite
<1>4. \A s \in Tx : SameWrite(s) /\ (Writing(s)' => Writing(s))
  BY <1>2 DEF SameWrite, Writing
<1>5. ASSUME NEW s \in Tx, tx'[s].op = "create" PROVE CreateStands(s)'
  <2>1. CreateStands(s)
    BY <1>2, <1>5 DEF PgInv, TxStands
  <2>2. \A r \in Tx \ {s} : Writing(r)' => Writing(r) /\ tx'[r].digest = tx[r].digest
    BY <1>4 DEF SameWrite
  <2>3. tx[s].user \in users' /\ tx[s].digest \notin issued'
    BY <1>1, <2>1 DEF CreateStands
  <2> QED
    BY <1>4, <2>1, <2>2, <2>3, CreateKeepsStanding
<1>6. ASSUME NEW s \in Tx, tx'[s].op = "autosave" PROVE AutosaveStands(s)'
  <2>1. AutosaveStands(s)
    BY <1>2, <1>6 DEF PgInv, TxStands
  <2> QED
    BY <1>1, <1>4, <2>1, AutosaveKeepsStanding
<1> QED
  BY <1>2, <1>3, <1>5, <1>6 DEF PgInv, TxStands

(* Opening or extending the deletion of a user writes nothing yet.          *)
LEMMA DeletingInv ==
  ASSUME PgInv, NEW t \in Tx, ~Writing(t), ~Writing(t)',
         UNCHANGED <<users, digests, revisions, issued>>,
         tx' \in [Tx -> Transaction], \A s \in Tx \ {t} : tx'[s] = tx[s],
         LocksExclude'
  PROVE  PgInv'
<1>1. ASSUME NEW s \in Tx, tx'[s].op = "create" PROVE CreateStands(s)'
  <2>1. s # t /\ CreateStands(s)
    BY <1>1 DEF PgInv, TxStands, Writing
  <2>2. \A r \in Tx \ {s} : Writing(r)' => Writing(r) /\ tx'[r].digest = tx[r].digest
    BY DEF Writing
  <2>3. tx[s].user \in users' /\ tx[s].digest \notin issued' /\ SameWrite(s)
    BY <2>1 DEF CreateStands, SameWrite
  <2> QED
    BY <2>1, <2>2, <2>3, CreateKeepsStanding
<1>2. ASSUME NEW s \in Tx, tx'[s].op = "autosave" PROVE AutosaveStands(s)'
  <2>1. s # t /\ AutosaveStands(s)
    BY <1>2 DEF PgInv, TxStands, Writing
  <2> QED
    BY <2>1, AutosaveKeepsStanding DEF SameWrite
<1> QED
  BY <1>1, <1>2 DEF PgInv, TxStands

LEMMA LockUserInv ==
  ASSUME PgInv, NEW t \in Tx, NEW u \in Users, LockUser(t, u)
  PROVE  PgInv'
<1> DEFINE next == [op |-> "deleteUser", user |-> u, locked |-> {}]
<1>1. /\ UNCHANGED <<users, digests, revisions, issued>>
      /\ tx[t] = Closed
      /\ \A s \in Tx \ {t} : ~HoldsUser(s, u) /\ ~SharesUser(s, u)
  BY DEF LockUser, tables, UserUndeleted
<1>2. /\ tx'[t] = next /\ \A s \in Tx \ {t} : tx'[s] = tx[s]
      /\ tx' \in [Tx -> Transaction]
  <2>1. next \in Transaction
    BY DEF Transaction
  <2> QED
    BY <2>1 DEF LockUser, Become, PgInv
<1>3. LocksExclude'
  BY <1>1, <1>2 DEF PgInv, LocksExclude, HoldsDigest, HoldsUser, SharesUser, Writing
<1>4. ~Writing(t) /\ ~Writing(t)'
  BY <1>1, <1>2 DEF Writing, Closed
<1> QED
  BY <1>1, <1>2, <1>3, <1>4, DeletingInv

LEMMA LockDigestInv ==
  ASSUME PgInv, NEW t \in Tx, LockDigest(t)
  PROVE  PgInv'
<1>1. PICK d \in ToLock(t) :
        /\ DigestUnlocked(t, d)
        /\ tx' = [tx EXCEPT ![t].locked = @ \cup {d}]
  BY DEF LockDigest
<1>2. /\ UNCHANGED <<users, digests, revisions, issued>>
      /\ tx[t].op = "deleteUser" /\ d \in DigestIds
      /\ \A s \in Tx \ {t} : ~HoldsDigest(s, d)
  BY <1>1 DEF LockDigest, tables, DigestUnlocked, ToLock
<1>3. /\ tx' \in [Tx -> Transaction]
      /\ \A s \in Tx \ {t} : tx'[s] = tx[s]
      /\ tx'[t] = [op |-> "deleteUser", user |-> tx[t].user,
                   locked |-> tx[t].locked \cup {d}]
  <2>1. /\ tx[t] \in [op : {"deleteUser"}, user : Users, locked : SUBSET DigestIds]
        /\ tx'[t] = [tx[t] EXCEPT !.locked = tx[t].locked \cup {d}]
        /\ \A s \in Tx \ {t} : tx'[s] = tx[s]
    BY <1>1, <1>2 DEF PgInv, Transaction, Closed
  <2>2. tx'[t] = [op |-> "deleteUser", user |-> tx[t].user,
                  locked |-> tx[t].locked \cup {d}]
    BY <2>1
  <2>3. tx'[t] \in Transaction
    BY <1>2, <2>1, <2>2 DEF Transaction
  <2> QED
    BY <1>1, <2>1, <2>2, <2>3 DEF PgInv
<1>4. LocksExclude'
  BY <1>2, <1>3 DEF PgInv, LocksExclude, HoldsDigest, HoldsUser, SharesUser, Writing
<1>5. ~Writing(t) /\ ~Writing(t)'
  BY <1>2, <1>3 DEF Writing
<1> QED
  BY <1>2, <1>3, <1>4, <1>5, DeletingInv

(***************************************************************************)
(* The three steps that change committed rows.  Each is a call of the      *)
(* store, and what the other transactions rely on survives it.             *)
(***************************************************************************)
LEMMA CommitInv ==
  ASSUME StoreInv, PgInv, NEW t \in Tx, Commit(t)
  PROVE  PgInv'
<1> DEFINE d == tx[t].digest
<1>1. /\ Writing(t) /\ d \in DigestIds
      /\ digests' = [digests EXCEPT ![d] = tx[t].row]
      /\ issued' = issued \cup {d} /\ users' = users
      /\ tx' = [tx EXCEPT ![t] = Closed]
  BY DEF Commit, Become, PgInv, Transaction, Writing, Closed
<1>2. /\ tx'[t] = Closed /\ \A s \in Tx \ {t} : tx'[s] = tx[s]
      /\ tx' \in [Tx -> Transaction]
  BY <1>1 DEF PgInv, Transaction
<1>3. LocksExclude'
  BY <1>2 DEF PgInv, LocksExclude, HoldsDigest, HoldsUser, SharesUser, Writing, Closed
<1>4. \A s \in Tx : Writing(s)' => s # t /\ Writing(s)
  BY <1>2 DEF Writing, Closed
<1> HIDE DEF d
<1>5. ASSUME NEW s \in Tx, tx'[s].op = "create" PROVE CreateStands(s)'
  <2>1. s # t /\ CreateStands(s)
    BY <1>2, <1>5 DEF PgInv, TxStands, Closed
  <2>2. \A r \in Tx \ {s} : Writing(r)' => Writing(r) /\ tx'[r].digest = tx[r].digest
    BY <1>2, <1>4
  <2>3. tx[s].digest # d
    BY <1>1, <2>1 DEF CreateStands, d
  <2>4. tx[s].user \in users' /\ tx[s].digest \notin issued' /\ SameWrite(s)
    BY <1>1, <1>2, <2>1, <2>3 DEF CreateStands, SameWrite
  <2> QED
    BY <2>1, <2>2, <2>4, CreateKeepsStanding
<1>6. ASSUME NEW s \in Tx, tx'[s].op = "autosave" PROVE AutosaveStands(s)'
  <2>1. s # t /\ tx[s].op = "autosave" /\ AutosaveStands(s)
    BY <1>2, <1>6 DEF PgInv, TxStands, Closed
  <2>2. tx[s].digest # d
    <3>1. CASE tx[t].op = "create"
      BY <2>1, <3>1 DEF PgInv, TxStands, CreateStands, Writing, d
    <3>2. CASE tx[t].op = "autosave"
      BY <1>1, <2>1, <3>2 DEF PgInv, LocksExclude, HoldsDigest, d
    <3> QED
      BY <1>1, <3>1, <3>2 DEF Writing
  <2>3. digests'[tx[s].digest] = digests[tx[s].digest]
    <3>1. tx[s].digest \in DigestIds
      BY <2>1 DEF PgInv, Transaction, Closed
    <3> QED
      BY <1>1, <2>2, <3>1 DEF StoreInv, Store!TypeOK
  <2> QED
    BY <1>2, <2>1, <2>3, AutosaveKeepsStanding DEF SameWrite
<1> QED
  BY <1>2, <1>3, <1>5, <1>6 DEF PgInv, TxStands

LEMMA CommitImplements ==
  ASSUME StoreInv, PgInv, NEW t \in Tx, Commit(t)
  PROVE  Store!Next
<1> DEFINE d == tx[t].digest
           u == tx[t].user
<1>1. /\ Writing(t) /\ d \in DigestIds /\ u \in Users
      /\ digests' = [digests EXCEPT ![d] = tx[t].row]
      /\ revisions' = revisions \cup
           {[digest |-> d, version |-> tx[t].version, state |-> tx[t].row.state]}
      /\ issued' = issued \cup {d} /\ users' = users
  BY DEF Commit, RevisionRow, PgInv, Transaction, Writing, Closed
<1>2. CASE tx[t].op = "create"
  <2>1. CreateStands(t)
    BY <1>2 DEF PgInv, TxStands
  <2>2. PICK title \in Titles, type \in KnownTypes, state \in Store!State :
          tx[t].row = [owner |-> u, title |-> title, type |-> type, version |-> 1,
                       state |-> state]
    BY <2>1 DEF CreateStands
  <2>3. u \in users /\ d \notin issued
    BY <2>1 DEF CreateStands
  <2>4. tx[t].row.state = state /\ tx[t].version = 1
    BY <2>1, <2>2 DEF CreateStands
  <2> HIDE DEF d, u
  <2>5. Store!CreateDigest(u, d, title, type, state)
    BY <1>1, <2>2, <2>3, <2>4 DEF Store!CreateDigest, Store!HasAccount, Store!Fresh
  <2> QED
    BY <1>1, <2>5 DEF Store!Next
<1>3. CASE tx[t].op = "autosave"
  <2>1. AutosaveStands(t)
    BY <1>3 DEF PgInv, TxStands
  <2>2. PICK title \in Titles, type \in KnownTypes \cup {NoType, UnknownType},
             state \in Store!State :
          /\ Store!AcceptsType(type)
          /\ tx[t].row = Store!SavedDigest(digests[d], title, type, state)
    BY <2>1 DEF AutosaveStands
  <2>3. Store!Owned(u, d) /\ digests[d] \in Store!Digest /\ d \in issued
    BY <1>1, <2>1 DEF AutosaveStands, Store!Owned, StoreInv, Store!TypeOK
  <2>4. tx[t].row.state = state /\ tx[t].row.version = tx[t].version
    BY <2>1, <2>2, <2>3, StoreSavedDigest DEF AutosaveStands
  <2>5. issued' = issued
    BY <1>1, <2>3
  <2>6. Store!AutosaveDigest(u, d, title, type, state)
    BY <1>1, <2>1, <2>2, <2>3, <2>4, <2>5 DEF AutosaveStands, Store!AutosaveDigest
  <2> QED
    BY <1>1, <2>6 DEF Store!Next
<1> QED
  BY <1>1, <1>2, <1>3 DEF Writing

LEMMA DeleteDigestInv ==
  ASSUME StoreInv, PgInv, NEW t \in Tx, NEW u \in Users, NEW d \in DigestIds,
         DeleteDigest(t, u, d)
  PROVE  PgInv'
<1>1. /\ UNCHANGED <<users, issued, tx>>
      /\ tx[t] = Closed
      /\ \A s \in Tx \ {t} : ~HoldsDigest(s, d)
      /\ \A e \in DigestIds \ {d} : digests'[e] = digests[e]
  BY DEF DeleteDigest, DigestUnlocked, Store!DeleteDigest, Store!Drop
<1>2. LocksExclude'
  BY <1>1 DEF PgInv, LocksExclude, HoldsDigest, HoldsUser, SharesUser, Writing
<1>3. \A s \in Tx : SameWrite(s) /\ (Writing(s)' <=> Writing(s))
  BY <1>1 DEF SameWrite, Writing
<1>4. ASSUME NEW s \in Tx, tx'[s].op = "create" PROVE CreateStands(s)'
  <2>1. CreateStands(s)
    BY <1>1, <1>4 DEF PgInv, TxStands
  <2>2. tx[s].user \in users' /\ tx[s].digest \notin issued'
    BY <1>1, <2>1 DEF CreateStands
  <2> QED
    BY <1>3, <2>1, <2>2, CreateKeepsStanding DEF SameWrite
<1>5. ASSUME NEW s \in Tx, tx'[s].op = "autosave" PROVE AutosaveStands(s)'
  <2>1. s # t /\ tx[s].op = "autosave" /\ AutosaveStands(s)
    BY <1>1, <1>5 DEF PgInv, TxStands, Closed
  <2>2. tx[s].digest # d
    BY <1>1, <2>1 DEF HoldsDigest
  <2>3. tx[s].digest \in DigestIds
    BY <2>1 DEF PgInv, Transaction, Closed
  <2> QED
    BY <1>1, <1>3, <2>1, <2>2, <2>3, AutosaveKeepsStanding
<1> QED
  BY <1>1, <1>2, <1>4, <1>5 DEF PgInv, TxStands

LEMMA CommitDeleteUserInv ==
  ASSUME StoreInv, PgInv, NEW t \in Tx, CommitDeleteUser(t)
  PROVE  PgInv'
<1> DEFINE u == tx[t].user
<1>1. /\ tx[t].op = "deleteUser" /\ u \in Users
      /\ issued' = issued /\ users' = users \ {u}
      /\ \A e \in DigestIds : ~Store!Owned(u, e) => digests'[e] = digests[e]
      /\ tx' = [tx EXCEPT ![t] = Closed]
      /\ \A e \in DigestIds : Store!Owned(u, e) => e \in tx[t].locked
  BY DEF CommitDeleteUser, ToLock, Become, Store!DeleteUser, Store!Drop, PgInv,
     Transaction, Closed
<1>2. /\ tx'[t] = Closed /\ \A s \in Tx \ {t} : tx'[s] = tx[s]
      /\ tx' \in [Tx -> Transaction]
  BY <1>1 DEF PgInv, Transaction
<1>3. LocksExclude'
  BY <1>2 DEF PgInv, LocksExclude, HoldsDigest, HoldsUser, SharesUser, Writing, Closed
<1>4. HoldsUser(t, u)
  BY <1>1 DEF HoldsUser
<1> HIDE DEF u
<1>5. ASSUME NEW s \in Tx, tx'[s].op = "create" PROVE CreateStands(s)'
  <2>1. s # t /\ tx[s].op = "create" /\ CreateStands(s)
    BY <1>2, <1>5 DEF PgInv, TxStands, Closed
  <2>2. tx[s].user # u
    BY <1>1, <1>4, <2>1 DEF PgInv, LocksExclude, SharesUser, Writing
  <2>3. \A r \in Tx \ {s} : Writing(r)' => Writing(r) /\ tx'[r].digest = tx[r].digest
    BY <1>2 DEF Writing, Closed
  <2>4. tx[s].user \in users' /\ tx[s].digest \notin issued' /\ SameWrite(s)
    BY <1>1, <1>2, <2>1, <2>2 DEF CreateStands, SameWrite
  <2> QED
    BY <2>1, <2>3, <2>4, CreateKeepsStanding
<1>6. ASSUME NEW s \in Tx, tx'[s].op = "autosave" PROVE AutosaveStands(s)'
  <2>1. s # t /\ tx[s].op = "autosave" /\ AutosaveStands(s)
    BY <1>2, <1>6 DEF PgInv, TxStands, Closed
  <2>2. tx[s].digest \in DigestIds
    BY <2>1 DEF PgInv, Transaction, Closed
  <2>3. ~HoldsDigest(t, tx[s].digest)
    BY <2>1, <2>2 DEF PgInv, LocksExclude, HoldsDigest
  <2>4. ~Store!Owned(u, tx[s].digest)
    BY <1>1, <2>2, <2>3 DEF HoldsDigest
  <2> QED
    BY <1>1, <1>2, <2>1, <2>2, <2>4, AutosaveKeepsStanding DEF SameWrite
<1> QED
  BY <1>2, <1>3, <1>5, <1>6 DEF PgInv, TxStands

(***************************************************************************)
(* Every step keeps the invariant and is a call of the store or none.      *)
(***************************************************************************)
LEMMA StutterImplements == UNCHANGED tables => UNCHANGED Store!vars
BY DEF tables, Store!vars

LEMMA PgStep ==
  StoreInv /\ PgInv /\ [PgNext]_pgVars => PgInv' /\ [Store!Next]_Store!vars
<1> SUFFICES ASSUME StoreInv, PgInv, [PgNext]_pgVars
             PROVE  PgInv' /\ [Store!Next]_Store!vars
  OBVIOUS
<1>1. ASSUME NEW t \in Tx, NEW u \in Users, NEW d \in DigestIds, NEW title \in Titles,
             NEW type \in KnownTypes, NEW state \in Store!State,
             InsertDigest(t, u, d, title, type, state)
      PROVE  PgInv' /\ [Store!Next]_Store!vars
  BY <1>1, InsertDigestInv, StutterImplements DEF InsertDigest
<1>2. ASSUME NEW t \in Tx, NEW u \in Users, NEW d \in DigestIds, NEW title \in Titles,
             NEW type \in KnownTypes \cup {NoType, UnknownType},
             NEW state \in Store!State,
             UpdateDigest(t, u, d, title, type, state)
      PROVE  PgInv' /\ [Store!Next]_Store!vars
  BY <1>2, UpdateDigestInv, StutterImplements DEF UpdateDigest
<1>3. ASSUME NEW t \in Tx, InsertRevision(t)
      PROVE  PgInv' /\ [Store!Next]_Store!vars
  BY <1>3, InsertRevisionInv, StutterImplements DEF InsertRevision
<1>4. ASSUME NEW t \in Tx, Commit(t)
      PROVE  PgInv' /\ [Store!Next]_Store!vars
  BY <1>4, CommitInv, CommitImplements
<1>5. ASSUME NEW t \in Tx, NEW u \in Users, NEW d \in DigestIds, DeleteDigest(t, u, d)
      PROVE  PgInv' /\ [Store!Next]_Store!vars
  BY <1>5, DeleteDigestInv DEF DeleteDigest, Store!Next
<1>6. ASSUME NEW t \in Tx, NEW u \in Users, LockUser(t, u)
      PROVE  PgInv' /\ [Store!Next]_Store!vars
  BY <1>6, LockUserInv, StutterImplements DEF LockUser
<1>7. ASSUME NEW t \in Tx, LockDigest(t)
      PROVE  PgInv' /\ [Store!Next]_Store!vars
  BY <1>7, LockDigestInv, StutterImplements DEF LockDigest
<1>8. ASSUME NEW t \in Tx, CommitDeleteUser(t)
      PROVE  PgInv' /\ [Store!Next]_Store!vars
  <2>1. tx[t].user \in Users
    BY <1>8 DEF CommitDeleteUser, PgInv, Transaction, Closed
  <2>2. Store!DeleteUser(tx[t].user)
    BY <1>8 DEF CommitDeleteUser
  <2>3. Store!Next
    BY <2>1, <2>2 DEF Store!Next
  <2> QED
    BY <1>8, <2>3, CommitDeleteUserInv
<1>9. ASSUME NEW t \in Tx, Abort(t)
      PROVE  PgInv' /\ [Store!Next]_Store!vars
  BY <1>9, Closing, StutterImplements DEF Abort
<1>10. CASE UNCHANGED pgVars
  <2>1. UNCHANGED <<users, digests, revisions, issued, tx>>
    BY <1>10 DEF pgVars
  <2>2. PgInv'
    BY <2>1 DEF PgInv, LocksExclude, TxStands, CreateStands, AutosaveStands,
       HoldsDigest, HoldsUser, SharesUser, Writing, Store!Owned, Store!AcceptsType
  <2> QED
    BY <2>1, <2>2 DEF Store!vars
<1>11. Storable \subseteq Store!State
  BY DEF Storable
<1>12. CASE \E t \in Tx, u \in Users, d \in DigestIds, title \in Titles, state \in Storable :
              \/ \E type \in KnownTypes : InsertDigest(t, u, d, title, type, state)
              \/ \E type \in KnownTypes \cup {NoType, UnknownType} :
                   UpdateDigest(t, u, d, title, type, state)
  BY <1>1, <1>2, <1>11, <1>12
<1> QED
  BY <1>3, <1>4, <1>5, <1>6, <1>7, <1>8, <1>9, <1>10, <1>12
  DEF PgNext, Step, BreakDeadlock

(* Whatever other connections do between the statements of a transaction,   *)
(* and wherever transactions are aborted, the committed tables change only  *)
(* as MemoryStore changes them under its mutex.                             *)
THEOREM PgImplementsStore == PgSpec => ImplementsStore
<1>1. PgInit => StoreInv /\ PgInv
  BY StoreInvInit, PgInvInit DEF PgInit
<1>2. StoreInv /\ PgInv /\ [PgNext]_pgVars => (StoreInv /\ PgInv)'
  BY PgStep, StoreInvStep
<1>3. StoreInv /\ PgInv /\ [PgNext]_pgVars => [Store!Next]_Store!vars
  BY PgStep
<1>4. PgInit => Store!Init
  BY DEF PgInit
<1> QED
  BY <1>1, <1>2, <1>3, <1>4, PTL DEF PgSpec, ImplementsStore, Store!Spec

LEMMA PgInvariant == PgSpec => [](StoreInv /\ PgInv)
<1>1. PgInit => StoreInv /\ PgInv
  BY StoreInvInit, PgInvInit DEF PgInit
<1>2. StoreInv /\ PgInv /\ [PgNext]_pgVars => (StoreInv /\ PgInv)'
  BY PgStep, StoreInvStep
<1> QED
  BY <1>1, <1>2, PTL DEF PgSpec

(* Tables and transactions are well typed, and committed histories complete *)
(* and owned, at every moment, transactions half way through included.      *)
THEOREM PgTablesCorrect == PgSpec => []TablesCorrect
<1>1. StoreInv /\ PgInv => TablesCorrect
  BY DEF StoreInv, PgInv, PgTypeOK, TablesCorrect
<1> QED
  BY <1>1, PgInvariant, PTL

(* The version an open transaction is about to log is free, so the UNIQUE   *)
(* constraint on digest_revisions never turns a save into an error.         *)
THEOREM VersionsStayFree == PgSpec => []VersionsAreFree
<1>1. StoreInv /\ PgInv => VersionsAreFree
  <2> SUFFICES ASSUME StoreInv, PgInv, NEW t \in Tx, Writing(t),
                      NEW x \in revisions, x.digest = tx[t].digest,
                      x.version = tx[t].version
               PROVE  FALSE
    BY DEF VersionsAreFree, VersionTaken
  <2>1. digests[x.digest] # None /\ x.version \in 1..digests[x.digest].version
    BY DEF StoreInv, Store!HistoryComplete
  <2>2. x.digest \in DigestIds
    BY DEF StoreInv, Store!TypeOK, Store!Revision
  <2>3. CASE tx[t].op = "create"
    BY <2>1, <2>2, <2>3 DEF PgInv, TxStands, CreateStands, StoreInv, Store!TypeOK
  <2>4. CASE tx[t].op = "autosave"
    <3>1. digests[x.digest].version \in Nat
      BY <2>1, <2>2 DEF StoreInv, Store!TypeOK, Store!Digest
    <3>2. x.version = digests[x.digest].version + 1
      BY <2>4 DEF PgInv, TxStands, AutosaveStands
    <3> QED
      BY <2>1, <3>1, <3>2
  <2> QED
    BY <2>3, <2>4 DEF Writing
<1> QED
  BY <1>1, PgInvariant, PTL

-----------------------------------------------------------------------------
(***************************************************************************)
(* The handlers.  What module DigestProofs says of them, under the name    *)
(* Api.                                                                    *)
(***************************************************************************)
LEMMA SavesAreContract ==
  ASSUME NEW u, NEW d, NEW title, NEW type, NEW state
  PROVE  /\ Api!CreateDigest(u, d, title, type, state)
              <=> Contract!CreateDigest(u, d, title, type, state)
         /\ Store!CreateDigest(u, d, title, type, state)
              <=> Contract!CreateDigest(u, d, title, type, state)
         /\ Api!AutosaveDigest(u, d, title, type, state)
              <=> Contract!AutosaveDigest(u, d, title, type, state)
         /\ Store!AutosaveDigest(u, d, title, type, state)
              <=> Contract!AutosaveDigest(u, d, title, type, state)
BY DEF Api!CreateDigest, Contract!CreateDigest, Store!CreateDigest,
   Api!HasAccount, Contract!HasAccount, Store!HasAccount,
   Api!Fresh, Contract!Fresh, Store!Fresh, Api!Owned, Contract!Owned, Store!Owned,
   Api!AutosaveDigest, Contract!AutosaveDigest, Store!AutosaveDigest,
   Api!AcceptsType, Contract!AcceptsType, Store!AcceptsType,
   Api!SavedDigest, Contract!SavedDigest, Store!SavedDigest,
   Api!KeptType, Contract!KeptType, Store!KeptType, Api!Bump, Contract!Bump, Store!Bump

LEMMA DeletionsAreContract ==
  ASSUME NEW u, NEW d
  PROVE  /\ Api!DeleteDigest(u, d) <=> Contract!DeleteDigest(u, d)
         /\ Store!DeleteDigest(u, d) <=> Contract!DeleteDigest(u, d)
         /\ Api!DeleteUser(u) <=> Contract!DeleteUser(u)
         /\ Store!DeleteUser(u) <=> Contract!DeleteUser(u)
BY DEF Api!Owned, Contract!Owned, Store!Owned, Api!Drop, Contract!Drop, Store!Drop,
   Api!DeleteDigest, Contract!DeleteDigest, Store!DeleteDigest,
   Api!DeleteUser, Contract!DeleteUser, Store!DeleteUser

(* The reading steps of a handler, and its ends.                            *)
LEMMA ReadsAreContract ==
  ASSUME NEW r \in Requests
  PROVE  /\ Api!FindRevision(r) <=> Contract!FindRevision(r)
         /\ Api!ReadCurrent(r) <=> Contract!ReadCurrent(r)
         /\ \A u \in Users : Api!BeginCreate(r, u) <=> Contract!BeginCreate(r, u)
         /\ \A u \in Users, d \in DigestIds :
              /\ Api!BeginAutosave(r, u, d) <=> Contract!BeginAutosave(r, u, d)
              /\ Api!BeginDelete(r, u, d) <=> Contract!BeginDelete(r, u, d)
              /\ Api!BeginRollback(r, u, d) <=> Contract!BeginRollback(r, u, d)
         /\ Api!End(r) <=> Contract!End(r)
<1> USE DEF Api!vars, Contract!vars, Api!Begin, Contract!Begin, Api!Idle, Contract!Idle,
    Api!RawTitles, Contract!RawTitles, Api!RawTypes, Contract!RawTypes,
    Api!RevisionIds, Contract!RevisionIds, Api!CleanTitle, Contract!CleanTitle,
    Api!ResolveType, Contract!ResolveType, Api!Normalize, Contract!Normalize,
    Api!Valid, Contract!Valid, Api!CurrentTitle, Contract!CurrentTitle,
    Api!Owned, Contract!Owned
<1>1. Api!FindRevision(r) <=> Contract!FindRevision(r)
  BY DEF Api!FindRevision, Contract!FindRevision, Api!RevisionOf, Contract!RevisionOf
<1>2. Api!ReadCurrent(r) <=> Contract!ReadCurrent(r)
  BY DEF Api!ReadCurrent, Contract!ReadCurrent
<1>3. \A u \in Users : Api!BeginCreate(r, u) <=> Contract!BeginCreate(r, u)
  BY DEF Api!BeginCreate, Contract!BeginCreate
<1>4. \A u \in Users, d \in DigestIds :
        Api!BeginAutosave(r, u, d) <=> Contract!BeginAutosave(r, u, d)
  BY DEF Api!BeginAutosave, Contract!BeginAutosave
<1>5. \A u \in Users, d \in DigestIds :
        /\ Api!BeginDelete(r, u, d) <=> Contract!BeginDelete(r, u, d)
        /\ Api!BeginRollback(r, u, d) <=> Contract!BeginRollback(r, u, d)
  BY DEF Api!BeginDelete, Contract!BeginDelete, Api!BeginRollback, Contract!BeginRollback
<1>6. Api!End(r) <=> Contract!End(r)
  BY DEF Api!End, Contract!End
<1> QED
  BY <1>1, <1>2, <1>3, <1>4, <1>5, <1>6

LEMMA NextIsContract ==
  [Api!ApiNext]_Api!apiVars <=> [Contract!ApiNext]_Contract!apiVars
<1> USE SavesAreContract, DeletionsAreContract, ReadsAreContract
<1>1. \A r \in Requests :
        /\ Api!FinishCreate(r) <=> Contract!FinishCreate(r)
        /\ Api!FinishAutosave(r) <=> Contract!FinishAutosave(r)
        /\ Api!FinishDelete(r) <=> Contract!FinishDelete(r)
        /\ Api!FinishRollback(r) <=> Contract!FinishRollback(r)
  BY DEF Api!FinishCreate, Contract!FinishCreate, Api!FinishAutosave,
     Contract!FinishAutosave, Api!FinishDelete, Contract!FinishDelete,
     Api!FinishRollback, Contract!FinishRollback
<1>2. \A r \in Requests : Api!FailRequest(r) <=> Contract!FailRequest(r)
  BY DEF Api!FailRequest, Contract!FailRequest, Api!vars, Contract!vars, Api!Idle,
     Contract!Idle
<1>3. \A u \in Users : Api!RemoveUser(u) <=> Contract!RemoveUser(u)
  BY DEF Api!RemoveUser, Contract!RemoveUser
<1>4. Api!ApiNext <=> Contract!ApiNext
  BY <1>1, <1>2, <1>3 DEF Api!ApiNext, Contract!ApiNext
<1> QED
  BY <1>4 DEF Api!apiVars, Contract!apiVars, Api!vars, Contract!vars

(***************************************************************************)
(* The inductive invariant of handlers and transactions together.  An open *)
(* transaction of a request carries what the request holds.                *)
(***************************************************************************)
Carries(r) ==
  /\ tx[r].op # "deleteUser"
  /\ tx[r].op = "create" =>
       /\ req[r].pc = "create" /\ tx[r].user = req[r].user
       /\ tx[r].row = [owner |-> req[r].user, title |-> req[r].title,
                       type |-> req[r].type, version |-> 1, state |-> req[r].state]
  /\ tx[r].op = "autosave" =>
       /\ req[r].pc \in {"save", "write"}
       /\ tx[r].user = req[r].user /\ tx[r].digest = req[r].digest
       /\ Store!AcceptsType(req[r].type)
       /\ tx[r].row = Store!SavedDigest(digests[req[r].digest], req[r].title,
                                        req[r].type, req[r].state)

PgApiInv ==
  StoreInv /\ PgInv /\ Contract!ApiIInv /\ \A r \in Requests : Carries(r)

(* What a handler is about to write is of the kinds transactions take.      *)
LEMMA HeldTypes ==
  ASSUME Contract!ApiIInv, NEW r \in Requests
  PROVE  /\ req \in [Requests -> Contract!Request]
         /\ req[r].pc = "create" =>
              /\ req[r].user \in Users /\ req[r].title \in Titles
              /\ req[r].type \in KnownTypes /\ req[r].state \in Storable
         /\ req[r].pc \in {"save", "write"} =>
              /\ req[r].user \in Users /\ req[r].digest \in DigestIds
              /\ req[r].title \in Titles /\ req[r].state \in Storable
              /\ req[r].type \in KnownTypes \cup {NoType, UnknownType}
         /\ req[r].pc = "delete" =>
              req[r].user \in Users /\ req[r].digest \in DigestIds
<1>1. req \in [Requests -> Contract!Request] /\ req[r] \in Contract!Request
  BY DEF Contract!ApiIInv, Contract!ApiTypeOK
<1>2. req[r].pc \in {"create", "save", "write"} => ~Contract!Matched(req[r].state)
  BY DEF Contract!ApiIInv, Contract!RequestsSound, Contract!StateIsStorable
<1>3. \A state \in Contract!State : ~Contract!Matched(state) => state \in Storable
  BY DEF Storable, Contract!Matched, Contract!State, Store!State
<1>4. CASE req[r].pc = "create"
  BY <1>1, <1>2, <1>3, <1>4, Contract!RequestAt, ContractAssumption
<1>5. CASE req[r].pc = "save"
  BY <1>1, <1>2, <1>3, <1>5, Contract!RequestAt, ContractAssumption DEF Contract!RawTypes
<1>6. CASE req[r].pc = "write"
  BY <1>1, <1>2, <1>3, <1>6, Contract!RequestAt, ContractAssumption
<1>7. CASE req[r].pc = "delete"
  BY <1>1, <1>7, Contract!RequestAt, ContractAssumption
<1> QED
  BY <1>1, <1>4, <1>5, <1>6, <1>7

(* The row an open autosave has locked stays as it is: the transaction would *)
(* not stand otherwise, and no store call changes a row and keeps its version. *)
LEMMA LockedRowStays ==
  ASSUME StoreInv, PgInv, PgInv', [Store!Next]_Store!vars,
         NEW t \in Tx, tx'[t] = tx[t], tx[t].op = "autosave"
  PROVE  digests'[tx[t].digest] = digests[tx[t].digest]
<1> DEFINE d == tx[t].digest
<1>1. AutosaveStands(t) /\ AutosaveStands(t)'
  BY DEF PgInv, TxStands
<1>2. /\ d \in DigestIds /\ digests[d] # None /\ digests'[d] # None
      /\ digests[d].version + 1 = tx[t].version
      /\ digests'[d].version + 1 = tx[t].version
  BY <1>1 DEF AutosaveStands, Store!Owned, PgInv, Transaction, Closed
<1>3. d \in issued /\ digests[d].version \in Nat
  BY <1>2 DEF StoreInv, Store!TypeOK, Store!Digest
<1>4. d \in issued' /\ digests'[d].version \in Nat
  BY <1>2, StoreInvStep DEF StoreInv, Store!TypeOK, Store!Digest
<1> HIDE DEF d
<1>5. digests'[d] = digests[d] \/ digests'[d].version = digests[d].version + 1
  BY <1>2, <1>3, StoreIsContract, Contract!VersionsGrow, ContractAssumption DEF StoreInv
<1> QED
  BY <1>2, <1>3, <1>4, <1>5 DEF d

LEMMA CarriesOn ==
  ASSUME StoreInv, PgInv, PgInv', [Store!Next]_Store!vars,
         NEW r \in Requests, Carries(r), tx'[r] = tx[r], req'[r] = req[r]
  PROVE  Carries(r)'
<1>1. r \in Tx
  BY PgApiAssumption
<1>2. tx[r].op = "autosave" => digests'[tx[r].digest] = digests[tx[r].digest]
  BY <1>1, LockedRowStays
<1>3. tx[r].op = "autosave" =>
        tx'[r].row = Store!SavedDigest(digests'[req'[r].digest], req'[r].title,
                                       req'[r].type, req'[r].state)
  BY <1>2 DEF Carries
<1> QED
  BY <1>3 DEF Carries, Store!AcceptsType

(***************************************************************************)
(* Every step of a handler is a step of a transaction or none, and a step  *)
(* of module DigestApi or none; and it leaves the other requests alone.    *)
(***************************************************************************)
StepHolds ==
  /\ [PgNext]_pgVars
  /\ [Contract!ApiNext]_Contract!apiVars
  /\ \A s \in Requests : Carries(s)' \/ (tx'[s] = tx[s] /\ req'[s] = req[s])

LEMMA ReadHolds ==
  ASSUME PgApiInv, NEW r \in Requests, Read(r)
  PROVE  StepHolds
<1> USE DEF Api!vars, Api!Begin, Api!Idle
<1>1. UNCHANGED <<users, digests, revisions, issued, tx>>
  BY DEF Read, Api!FindRevision, Api!ReadCurrent, Api!BeginCreate, Api!BeginAutosave,
     Api!BeginDelete, Api!BeginRollback
<1>2. req[r].pc \in {"idle", "find", "read"}
  BY DEF Read, Api!FindRevision, Api!ReadCurrent, Api!BeginCreate, Api!BeginAutosave,
     Api!BeginDelete, Api!BeginRollback
<1>3. \E held : req' = [req EXCEPT ![r] = held]
  BY DEF Read, Api!FindRevision, Api!ReadCurrent, Api!BeginCreate, Api!BeginAutosave,
     Api!BeginDelete, Api!BeginRollback
<1>4. Carries(r)'
  BY <1>1, <1>2 DEF PgApiInv, Carries
<1>5. \A s \in Requests \ {r} : tx'[s] = tx[s] /\ req'[s] = req[s]
  BY <1>1, <1>3, HeldTypes DEF PgApiInv
<1>6. Contract!ApiNext
  BY ReadsAreContract DEF Read, Contract!ApiNext
<1>7. [PgNext]_pgVars
  BY <1>1 DEF pgVars
<1>8. \A s \in Requests : Carries(s)' \/ (tx'[s] = tx[s] /\ req'[s] = req[s])
  BY <1>4, <1>5
<1> QED
  BY <1>6, <1>7, <1>8 DEF StepHolds

LEMMA StartCreateHolds ==
  ASSUME PgApiInv, NEW r \in Requests, StartCreate(r)
  PROVE  StepHolds
<1>1. PICK d \in DigestIds :
        InsertDigest(r, req[r].user, d, req[r].title, req[r].type, req[r].state)
  BY DEF StartCreate
<1>2. /\ req[r].pc = "create" /\ req' = req /\ r \in Tx
      /\ UNCHANGED <<users, digests, revisions, issued>>
      /\ \A s \in Requests \ {r} : tx'[s] = tx[s]
  BY <1>1, PgApiAssumption DEF StartCreate, InsertDigest, tables, Become, PgApiInv, PgInv
<1>3. tx'[r] = [op |-> "create", pc |-> "row", user |-> req[r].user, digest |-> d,
                row |-> [owner |-> req[r].user, title |-> req[r].title,
                         type |-> req[r].type, version |-> 1, state |-> req[r].state],
                version |-> 1]
  BY <1>1, <1>2 DEF InsertDigest, Become, PgApiInv, PgInv
<1>4. Carries(r)'
  BY <1>2, <1>3 DEF Carries
<1>5. PgNext
  BY <1>1, <1>2, HeldTypes DEF PgNext, PgApiInv
<1> QED
  BY <1>2, <1>4, <1>5 DEF StepHolds, Contract!apiVars, Contract!vars

LEMMA StartSaveHolds ==
  ASSUME PgApiInv, NEW r \in Requests, StartSave(r)
  PROVE  StepHolds
<1> DEFINE saved == Store!SavedDigest(digests[req[r].digest], req[r].title, req[r].type,
                                      req[r].state)
<1>1. /\ req[r].pc \in {"save", "write"} /\ req' = req /\ r \in Tx
      /\ UpdateDigest(r, req[r].user, req[r].digest, req[r].title, req[r].type,
                      req[r].state)
      /\ Store!AcceptsType(req[r].type)
  BY PgApiAssumption DEF StartSave, UpdateDigest
<1>2. /\ UNCHANGED <<users, digests, revisions, issued>>
      /\ tx' = [tx EXCEPT ![r] =
           [op |-> "autosave", pc |-> "row", user |-> req[r].user,
            digest |-> req[r].digest, row |-> saved, version |-> saved.version]]
  BY <1>1 DEF UpdateDigest, tables, Become
<1>3. /\ tx'[r] = [op |-> "autosave", pc |-> "row", user |-> req[r].user,
                   digest |-> req[r].digest, row |-> saved, version |-> saved.version]
      /\ \A s \in Requests \ {r} : tx'[s] = tx[s]
  BY <1>1, <1>2, PgApiAssumption DEF PgApiInv, PgInv
<1>4. tx'[r].row = Store!SavedDigest(digests'[req'[r].digest], req'[r].title,
                                     req'[r].type, req'[r].state)
  BY <1>1, <1>2, <1>3
<1> HIDE DEF saved
<1>5. Carries(r)'
  BY <1>1, <1>3, <1>4 DEF Carries, Store!AcceptsType
<1>6. PgNext
  BY <1>1, HeldTypes DEF PgNext, PgApiInv
<1>7. \A s \in Requests : Carries(s)' \/ (tx'[s] = tx[s] /\ req'[s] = req[s])
  BY <1>1, <1>3, <1>5
<1> QED
  BY <1>1, <1>2, <1>6, <1>7 DEF StepHolds, Contract!apiVars, Contract!vars

LEMMA LogRevisionHolds ==
  ASSUME PgApiInv, NEW r \in Requests, LogRevision(r)
  PROVE  StepHolds
<1>1. /\ UNCHANGED <<users, digests, revisions, issued>> /\ req' = req /\ r \in Tx
      /\ Writing(r) /\ tx' = [tx EXCEPT ![r].pc = "logged"]
  BY PgApiAssumption DEF LogRevision, InsertRevision, tables
<1>2. /\ tx'[r].op = tx[r].op /\ tx'[r].user = tx[r].user
      /\ tx'[r].digest = tx[r].digest /\ tx'[r].row = tx[r].row
      /\ \A s \in Requests \ {r} : tx'[s] = tx[s]
  BY <1>1, PgApiAssumption DEF PgApiInv, PgInv, Transaction, Writing, Closed
<1>3. Carries(r)'
  BY <1>1, <1>2 DEF PgApiInv, Carries, Store!AcceptsType
<1>4. PgNext
  BY <1>1 DEF LogRevision, PgNext, Step
<1> QED
  BY <1>1, <1>2, <1>3, <1>4 DEF StepHolds, Contract!apiVars, Contract!vars

(* The commit makes the store call with what the request holds.             *)
LEMMA CommittedCall ==
  ASSUME PgApiInv, NEW r \in Requests, Commit(r)
  PROVE  \/ /\ req[r].pc = "create"
            /\ \E d \in DigestIds : Contract!CreateDigest(req[r].user, d, req[r].title,
                                                         req[r].type, req[r].state)
         \/ /\ req[r].pc \in {"save", "write"}
            /\ Contract!AutosaveDigest(req[r].user, req[r].digest, req[r].title,
                                       req[r].type, req[r].state)
<1> DEFINE u == req[r].user
           d == tx[r].digest
<1>1. r \in Tx
  BY PgApiAssumption
<1>2. /\ Writing(r) /\ d \in DigestIds
      /\ digests' = [digests EXCEPT ![d] = tx[r].row]
      /\ revisions' = revisions \cup
           {[digest |-> d, version |-> tx[r].version, state |-> tx[r].row.state]}
      /\ issued' = issued \cup {d} /\ users' = users
  BY <1>1 DEF Commit, RevisionRow, PgApiInv, PgInv, Transaction, Writing, Closed
<1>3. CASE tx[r].op = "create"
  <2>1. /\ u \in users /\ d \notin issued /\ tx[r].version = 1
        /\ req[r].pc = "create"
        /\ tx[r].row = [owner |-> u, title |-> req[r].title, type |-> req[r].type,
                        version |-> 1, state |-> req[r].state]
    BY <1>1, <1>3 DEF PgApiInv, PgInv, TxStands, CreateStands, Carries
  <2>2. tx[r].row.state = req[r].state
    BY <2>1
  <2> HIDE DEF d, u
  <2>3. Store!CreateDigest(u, d, req[r].title, req[r].type, req[r].state)
    BY <1>2, <2>1, <2>2 DEF Store!CreateDigest, Store!HasAccount, Store!Fresh
  <2> QED
    BY <1>2, <2>1, <2>3, SavesAreContract DEF u
<1>4. CASE tx[r].op = "autosave"
  <2>1. /\ Store!Owned(u, d) /\ digests[d].version < MaxVersion
        /\ tx[r].version = digests[d].version + 1
        /\ req[r].pc \in {"save", "write"} /\ d = req[r].digest
        /\ Store!AcceptsType(req[r].type)
        /\ tx[r].row = Store!SavedDigest(digests[d], req[r].title, req[r].type,
                                         req[r].state)
    BY <1>1, <1>4 DEF PgApiInv, PgInv, TxStands, AutosaveStands, Carries
  <2>2. digests[d] \in Store!Digest /\ d \in issued
    BY <1>2, <2>1 DEF Store!Owned, PgApiInv, StoreInv, Store!TypeOK
  <2>3. /\ req[r].title \in Titles /\ req[r].state \in Store!State
        /\ req[r].type \in KnownTypes \cup {NoType, UnknownType}
    BY <2>1, HeldTypes DEF PgApiInv, Storable
  <2>4. tx[r].row.state = req[r].state /\ tx[r].row.version = tx[r].version
    BY <2>1, <2>2, <2>3, StoreSavedDigest
  <2>5. issued' = issued
    BY <1>2, <2>2
  <2> HIDE DEF d, u
  <2>6. Store!AutosaveDigest(u, d, req[r].title, req[r].type, req[r].state)
    BY <1>2, <2>1, <2>4, <2>5 DEF Store!AutosaveDigest
  <2> QED
    BY <2>1, <2>6, SavesAreContract DEF u
<1> QED
  BY <1>2, <1>3, <1>4 DEF Writing

LEMMA FinishHolds ==
  ASSUME PgApiInv, NEW r \in Requests, Finish(r)
  PROVE  StepHolds
<1>1. /\ Commit(r) /\ Contract!End(r) /\ r \in Tx
      /\ req' = [req EXCEPT ![r] = Api!Idle] /\ tx' = [tx EXCEPT ![r] = Closed]
  BY ReadsAreContract, PgApiAssumption DEF Finish, Commit, Become, Api!End
<1>2. /\ tx'[r] = Closed
      /\ \A s \in Requests \ {r} : tx'[s] = tx[s] /\ req'[s] = req[s]
  BY <1>1, HeldTypes, PgApiAssumption DEF PgApiInv, PgInv
<1>3. Carries(r)'
  BY <1>2 DEF Carries, Closed
<1>4. PgNext
  BY <1>1 DEF PgNext, Step
<1>5. Contract!ApiNext
  <2>1. CASE req[r].pc = "create" /\ \E d \in DigestIds :
               Contract!CreateDigest(req[r].user, d, req[r].title, req[r].type, req[r].state)
    BY <1>1, <2>1 DEF Contract!ApiNext, Contract!FinishCreate
  <2>2. CASE /\ req[r].pc \in {"save", "write"}
             /\ Contract!AutosaveDigest(req[r].user, req[r].digest, req[r].title,
                                        req[r].type, req[r].state)
    BY <1>1, <2>2 DEF Contract!ApiNext, Contract!FinishAutosave, Contract!FinishRollback
  <2> QED
    BY <1>1, <2>1, <2>2, CommittedCall
<1>6. \A s \in Requests : Carries(s)' \/ (tx'[s] = tx[s] /\ req'[s] = req[s])
  BY <1>2, <1>3
<1> QED
  BY <1>4, <1>5, <1>6 DEF StepHolds

LEMMA FinishDeleteHolds ==
  ASSUME PgApiInv, NEW r \in Requests, FinishDelete(r)
  PROVE  StepHolds
<1>1. /\ req[r].pc = "delete" /\ tx[r] = Closed /\ tx' = tx /\ r \in Tx
      /\ DeleteDigest(r, req[r].user, req[r].digest)
      /\ Store!DeleteDigest(req[r].user, req[r].digest)
      /\ Contract!End(r) /\ req' = [req EXCEPT ![r] = Api!Idle]
  BY ReadsAreContract, PgApiAssumption DEF FinishDelete, DeleteDigest, Api!End
<1>2. Carries(r)'
  BY <1>1 DEF Carries, Closed
<1>3. \A s \in Requests \ {r} : tx'[s] = tx[s] /\ req'[s] = req[s]
  BY <1>1, HeldTypes DEF PgApiInv
<1>4. PgNext
  BY <1>1, HeldTypes DEF PgNext, PgApiInv
<1>5. Contract!ApiNext
  BY <1>1, DeletionsAreContract DEF Contract!ApiNext, Contract!FinishDelete
<1>6. \A s \in Requests : Carries(s)' \/ (tx'[s] = tx[s] /\ req'[s] = req[s])
  BY <1>2, <1>3
<1> QED
  BY <1>4, <1>5, <1>6 DEF StepHolds

LEMMA FailRequestHolds ==
  ASSUME PgApiInv, NEW r \in Requests, FailRequest(r)
  PROVE  StepHolds
<1>1. /\ req[r] # Contract!Idle /\ Contract!End(r) /\ r \in Tx
      /\ UNCHANGED <<users, digests, revisions, issued>>
      /\ req' = [req EXCEPT ![r] = Api!Idle] /\ tx' = [tx EXCEPT ![r] = Closed]
  BY ReadsAreContract, PgApiAssumption
  DEF FailRequest, Become, Api!End, tables, Api!Idle, Contract!Idle
<1>2. /\ tx'[r] = Closed
      /\ \A s \in Requests \ {r} : tx'[s] = tx[s] /\ req'[s] = req[s]
  BY <1>1, HeldTypes, PgApiAssumption DEF PgApiInv, PgInv
<1>3. Carries(r)'
  BY <1>2 DEF Carries, Closed
<1>4. [PgNext]_pgVars
  <2>1. CASE tx[r] = Closed
    <3>1. tx' = tx
      BY <1>1, <2>1 DEF PgApiInv, PgInv
    <3> QED
      BY <1>1, <3>1 DEF pgVars
  <2>2. CASE tx[r] # Closed
    BY <1>1, <2>2 DEF PgNext, Abort, FailRequest
  <2> QED
    BY <2>1, <2>2
<1>5. Contract!ApiNext
  BY <1>1 DEF Contract!ApiNext, Contract!FailRequest, Contract!vars
<1>6. \A s \in Requests : Carries(s)' \/ (tx'[s] = tx[s] /\ req'[s] = req[s])
  BY <1>2, <1>3
<1> QED
  BY <1>4, <1>5, <1>6 DEF StepHolds

LEMMA RemoveUserHolds ==
  ASSUME PgApiInv, NEW t \in Tx \ Requests, RemoveUser(t)
  PROVE  StepHolds
<1>1. req' = req /\ tx \in [Tx -> Transaction]
  BY DEF RemoveUser, PgApiInv, PgInv
<1>2. \E next : tx' = [tx EXCEPT ![t] = next]
  <2>1. CASE LockDigest(t)
    <3>1. PICK d \in ToLock(t) : tx' = [tx EXCEPT ![t].locked = @ \cup {d}]
      BY <2>1 DEF LockDigest
    <3>2. tx' = [tx EXCEPT ![t] = [tx[t] EXCEPT !.locked = @ \cup {d}]]
      BY <1>1, <3>1
    <3> QED
      BY <3>2
  <2>2. CASE ~LockDigest(t)
    BY <2>2 DEF RemoveUser, LockUser, CommitDeleteUser, Abort, Become
  <2> QED
    BY <2>1, <2>2
<1>3. \A s \in Requests : tx'[s] = tx[s] /\ req'[s] = req[s]
  BY <1>1, <1>2, PgApiAssumption
<1>4. PgNext
  BY DEF RemoveUser, PgNext, Step
<1>5. CASE CommitDeleteUser(t)
  <2>1. tx[t].user \in Users /\ Store!DeleteUser(tx[t].user)
    BY <1>1, <1>5 DEF CommitDeleteUser, Transaction, Closed
  <2>2. Contract!RemoveUser(tx[t].user)
    BY <1>1, <2>1, DeletionsAreContract DEF Contract!RemoveUser
  <2>3. Contract!ApiNext
    BY <2>1, <2>2 DEF Contract!ApiNext
  <2> QED
    BY <1>3, <1>4, <2>3 DEF StepHolds
<1>6. CASE ~CommitDeleteUser(t)
  <2>1. UNCHANGED <<users, digests, revisions, issued>>
    BY <1>6 DEF RemoveUser, LockUser, LockDigest, Abort, tables
  <2> QED
    BY <1>1, <1>3, <1>4, <2>1 DEF StepHolds, Contract!apiVars, Contract!vars
<1> QED
  BY <1>5, <1>6

LEMMA PgApiStep == PgApiInv /\ [PgApiNext]_pgApiVars => StepHolds
<1> SUFFICES ASSUME PgApiInv, [PgApiNext]_pgApiVars PROVE StepHolds
  OBVIOUS
<1>1. CASE UNCHANGED pgApiVars
  BY <1>1 DEF pgApiVars, StepHolds, pgVars, Contract!apiVars, Contract!vars
<1>2. CASE \E r \in Requests :
             \/ Read(r) \/ StartCreate(r) \/ StartSave(r) \/ LogRevision(r) \/ Finish(r)
             \/ FinishDelete(r) \/ FailRequest(r)
  BY <1>2, ReadHolds, StartCreateHolds, StartSaveHolds, LogRevisionHolds, FinishHolds,
     FinishDeleteHolds, FailRequestHolds
<1>3. CASE \E t \in Tx \ Requests : RemoveUser(t)
  BY <1>3, RemoveUserHolds
<1> QED
  BY <1>1, <1>2, <1>3 DEF PgApiNext

LEMMA PgApiInvNext == PgApiInv /\ [PgApiNext]_pgApiVars => PgApiInv'
<1> SUFFICES ASSUME PgApiInv, [PgApiNext]_pgApiVars PROVE PgApiInv'
  OBVIOUS
<1>1. StepHolds
  BY PgApiStep
<1>2. PgInv' /\ [Store!Next]_Store!vars
  BY <1>1, PgStep DEF StepHolds, PgApiInv
<1>3. StoreInv'
  BY <1>2, StoreInvStep DEF PgApiInv
<1>4. Contract!ApiIInv'
  BY <1>1, Contract!ApiNextIInv, ContractAssumption DEF StepHolds, PgApiInv
<1>5. \A r \in Requests : Carries(r)'
  BY <1>1, <1>2, CarriesOn DEF StepHolds, PgApiInv
<1> QED
  BY <1>2, <1>3, <1>4, <1>5 DEF PgApiInv

LEMMA PgApiInitInv == PgApiInit => PgApiInv /\ Contract!ApiInit
<1> SUFFICES ASSUME PgApiInit PROVE PgApiInv /\ Contract!ApiInit
  OBVIOUS
<1>1. StoreInv /\ PgInv
  BY StoreInvInit, PgInvInit DEF PgApiInit, PgInit
<1>2. Contract!ApiInit
  BY StoreIsContract DEF PgApiInit, PgInit, Contract!ApiInit, Api!Idle, Contract!Idle
<1>3. Contract!ApiIInv
  BY <1>2, Contract!ApiInitIInv, ContractAssumption
<1>4. \A r \in Requests : Carries(r)
  BY PgApiAssumption DEF PgApiInit, PgInit, Carries, Closed
<1> QED
  BY <1>1, <1>2, <1>3, <1>4 DEF PgApiInv

LEMMA PgApiInvariance == PgApiSpec => []PgApiInv
BY PgApiInitInv, PgApiInvNext, PTL DEF PgApiSpec

(* Handlers run transactions as PgDigestStore says, on states from which    *)
(* normalizeState has removed inline images.                                *)
THEOREM HandlersRunTransactions == PgApiSpec => HandlersUseTransactions
<1>1. PgApiInit => PgInit
  BY DEF PgApiInit
<1>2. PgApiInv /\ [PgApiNext]_pgApiVars => [PgNext]_pgVars
  BY PgApiStep DEF StepHolds
<1> QED
  BY <1>1, <1>2, PgApiInvariance, PTL DEF PgApiSpec, HandlersUseTransactions, PgSpec

(* So under the handlers, too, histories are complete at every moment, no   *)
(* version is taken, and the tables change as MemoryStore changes them.     *)
THEOREM PgHandlersKeepTables ==
  PgApiSpec => [](TablesCorrect /\ VersionsAreFree) /\ ImplementsStore
BY HandlersRunTransactions, PgTablesCorrect, VersionsStayFree, PgImplementsStore, PTL
   DEF HandlersUseTransactions

(* The handlers over Postgres behave as the handlers over a store of atomic *)
(* calls: the statements of other requests between theirs go unnoticed.     *)
THEOREM PgImplementsApi == PgApiSpec => ImplementsApi
<1>1. PgApiInit => Api!ApiInit
  BY DEF PgApiInit, PgInit, Api!ApiInit, Store!Init, Api!Init,
     Store!FirstRevisions, Api!FirstRevisions
<1>2. PgApiInv /\ [PgApiNext]_pgApiVars => [Api!ApiNext]_Api!apiVars
  BY PgApiStep, NextIsContract DEF StepHolds
<1> QED
  BY <1>1, <1>2, PgApiInvariance, PTL DEF PgApiSpec, ImplementsApi, Api!ApiSpec

LEMMA PgFollowsContract == PgApiSpec => Contract!ApiSpec
<1>1. PgApiInv /\ [PgApiNext]_pgApiVars => [Contract!ApiNext]_Contract!apiVars
  BY PgApiStep DEF StepHolds
<1> QED
  BY <1>1, PgApiInitInv, PgApiInvariance, PTL DEF PgApiSpec, Contract!ApiSpec

(* A rollback over Postgres puts back the revision it was asked for.        *)
THEOREM PgRollbackIsExact == PgApiSpec => RollbackRestoresRevision
<1>1. [\A r \in Requests : Contract!RolledBack(r) =>
         \E x \in revisions :
           /\ <<x.digest, x.version>> = req[r].rev
           /\ x.digest = req[r].digest
           /\ digests'[x.digest].state = Contract!Normalize(x.state)]_Contract!apiVars
      => [\A r \in Requests : Api!RolledBack(r) =>
            \E x \in revisions :
              /\ <<x.digest, x.version>> = req[r].rev
              /\ x.digest = req[r].digest
              /\ digests'[x.digest].state = Api!Normalize(x.state)]_Api!apiVars
  BY DEF Contract!RolledBack, Api!RolledBack, Contract!Normalize, Api!Normalize,
     Contract!Idle, Api!Idle, Contract!apiVars, Api!apiVars, Contract!vars, Api!vars
<1>2. Contract!ApiSpec => Contract!RollbackRestoresRevision
  BY Contract!RollbackIsExact, ContractAssumption
<1> QED
  BY <1>1, <1>2, PgFollowsContract, PTL
  DEF RollbackRestoresRevision, Api!RollbackRestoresRevision,
      Contract!RollbackRestoresRevision

(* Over Postgres a digest changes only for a request of its owner, or goes  *)
(* with its owner, whose deletion may be half way when the request starts.  *)
THEOREM PgOnlyOwnersWrite == PgApiSpec => OnlyOwnerChanges
<1>1. [\A d \in issued : digests'[d] # digests[d] =>
         \/ digests[d].owner \notin users'
         \/ \E r \in Requests : /\ req[r] # Contract!Idle /\ req'[r] = Contract!Idle
                                /\ req[r].user = digests[d].owner]_Contract!apiVars
      => [\A d \in issued : digests'[d] # digests[d] =>
            \/ digests[d].owner \notin users'
            \/ \E r \in Requests : /\ req[r] # Api!Idle /\ req'[r] = Api!Idle
                                   /\ req[r].user = digests[d].owner]_Api!apiVars
  BY DEF Contract!Idle, Api!Idle, Contract!apiVars, Api!apiVars, Contract!vars, Api!vars
<1>2. Contract!ApiSpec => Contract!OnlyOwnerChanges
  BY Contract!OnlyOwnersWrite, ContractAssumption
<1> QED
  BY <1>1, <1>2, PgFollowsContract, PTL
  DEF OnlyOwnerChanges, Api!OnlyOwnerChanges, Contract!OnlyOwnerChanges

(* Over Postgres a rollback keeps title and type unless a save slips in, and *)
(* no image the server could store is written inline.                       *)
THEOREM PgHandlersBehave ==
  PgApiSpec => Contract!RollbackKeepsTitle /\ Contract!NoStorableImageInline
<1>1. /\ Contract!ApiSpec => Contract!RollbackKeepsTitle
      /\ Contract!ApiSpec => Contract!NoStorableImageInline
  BY Contract!RollbackIsNarrow, Contract!ImagesAreStored, ContractAssumption
<1> QED
  BY <1>1, PgFollowsContract, PTL
=============================================================================
