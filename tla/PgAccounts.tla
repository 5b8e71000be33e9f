----------------------------- MODULE PgAccounts -----------------------------
(***************************************************************************)
(* The accounts of PostgresStore: the handlers of module Accounts, with    *)
(* each store call that writes cut into the execution of its statement,    *)
(* which takes locks and sees committed rows, and its commit.  There is no *)
(* code index: access_code is a UNIQUE column of users.  Postgres itself   *)
(* is modelled from how the code uses it:                                  *)
(*   - an INSERT waits for an uncommitted one with the same access_code,   *)
(*     and for the deletion of the user who has it;                        *)
(*   - UPDATE and DELETE lock the user row and go by its newest version;   *)
(*   - the foreign key of a session shares a lock on the user row that     *)
(*     an UPDATE of the name or the flag allows and a DELETE excludes;     *)
(*   - DELETE FROM users takes the sessions along (ON DELETE CASCADE).     *)
(* Calls that only read are one step, as in module Accounts.               *)
(***************************************************************************)
EXTENDS Integers

CONSTANTS Ids, Codes, Names, NoName, Tokens, Requests, Seed, None, TTL, MaxTime

VARIABLES
  users, issuedIds, sessions, minted, now, req,   \* as in module Accounts
  stmt            \* statement of each request that is not committed, or None

pgTables == <<users, issuedIds, sessions, minted>>
pgVars == <<pgTables, now, req, stmt>>

(* WHERE access_code = $1                                                    *)
UserWithCode(c) ==
  LET found == {id \in Ids : users[id] # None /\ users[id].code = c}
  IN  IF found = {} THEN None ELSE CHOOSE id \in found : TRUE

Accounts == INSTANCE Accounts WITH codeToID <- [c \in Codes |-> UserWithCode(c)]

Statement ==
       [op : {"insert"}, id : Ids, code : Codes]
  \cup [op : {"update"}, id : Ids, row : Accounts!Account]
  \cup [op : {"delete"}, id : Ids]
  \cup [op : {"session"}, id : Ids, token : Tokens]

ASSUME PgAccountsAssumption == Accounts!AccountsAssumption /\ None \notin Statement

Open(op) == {s \in Requests : stmt[s] # None /\ stmt[s].op = op}

PgInit == Accounts!Init /\ stmt = [r \in Requests |-> None]

-----------------------------------------------------------------------------
(* Locks.                                                                   *)
RowFree(id) == \A s \in Open("update") \cup Open("delete") : stmt[s].id # id

UserStays(id) == users[id] # None /\ \A s \in Open("delete") : stmt[s].id # id

NotReferenced(id) == \A s \in Open("session") : stmt[s].id # id

(* Definitions named Bad... are plausible mistakes in the ones they precede; *)
(* the specification never uses them.  This one does without UNIQUE           *)
(* (access_code): committed rows only.                                       *)
BadCodeFree(c) == UserWithCode(c) = None
CodeFree(c) == UserWithCode(c) = None /\ \A s \in Open("insert") : stmt[s].code # c

NewId(id) == id \notin issuedIds /\ \A s \in Open("insert") : stmt[s].id # id
NewToken(t) == t \notin minted /\ \A s \in Open("session") : stmt[s].token # t

-----------------------------------------------------------------------------
(* A statement is executed.                                                  *)
Execute(r, statement) ==
  /\ stmt[r] = None
  /\ stmt' = [stmt EXCEPT ![r] = statement]
  /\ UNCHANGED <<pgTables, now, req>>

ExecInsertUser(r) ==
  /\ req[r].pc = "create"
  /\ \E id \in Ids, code \in Codes :
       /\ NewId(id) /\ CodeFree(code)
       /\ Execute(r, [op |-> "insert", id |-> id, code |-> code])

Updated(r) ==
  IF req[r].pc = "flag"
  THEN [users[req[r].target] EXCEPT !.admin = req[r].admin]
  ELSE [users[req[r].target] EXCEPT !.name = req[r].name]

ExecUpdateUser(r) ==
  /\ req[r].pc \in {"flag", "name"}
  /\ users[req[r].target] # None /\ RowFree(req[r].target)
  /\ Execute(r, [op |-> "update", id |-> req[r].target, row |-> Updated(r)])

ExecDeleteUser(r) ==
  /\ req[r].pc = "delete"
  /\ users[req[r].target] # None
  /\ RowFree(req[r].target) /\ NotReferenced(req[r].target)
  /\ Execute(r, [op |-> "delete", id |-> req[r].target])

ExecInsertSession(r) ==
  /\ req[r].pc = "session"
  /\ UserStays(req[r].user)
  /\ \E t \in Tokens :
       /\ NewToken(t)
       /\ Execute(r, [op |-> "session", id |-> req[r].user, token |-> t])

-----------------------------------------------------------------------------
(* Its commit, and the rest of the handler up to the next store call.        *)
Ready(r, op) == r \in Open(op)
Closed(r) == stmt' = [stmt EXCEPT ![r] = None]
End(r) == req' = [req EXCEPT ![r] = Accounts!Idle]

CommitInsertUser(r) ==
  /\ Ready(r, "insert")
  /\ users' = [users EXCEPT ![stmt[r].id] =
       [name |-> req[r].name, code |-> stmt[r].code, admin |-> FALSE]]
  /\ issuedIds' = issuedIds \cup {stmt[r].id}
  /\ End(r) /\ Closed(r)
  /\ UNCHANGED <<sessions, minted, now>>

(* The handler writes the name also when the request has none.              *)
BadAfterUpdate(r) ==
  IF req[r].pc = "flag"
  THEN req' = [req EXCEPT ![r] = [pc |-> "name", actor |-> req[r].actor,
                                  target |-> req[r].target, name |-> req[r].name]]
  ELSE End(r)
AfterUpdate(r) ==
  IF req[r].pc = "flag" /\ req[r].name # NoName
  THEN req' = [req EXCEPT ![r] = [pc |-> "name", actor |-> req[r].actor,
                                  target |-> req[r].target, name |-> req[r].name]]
  ELSE End(r)

CommitUpdateUser(r) ==
  /\ Ready(r, "update")
  /\ users' = [users EXCEPT ![stmt[r].id] = stmt[r].row]
  /\ AfterUpdate(r) /\ Closed(r)
  /\ UNCHANGED <<issuedIds, sessions, minted, now>>

CommitDeleteUser(r) ==
  /\ Ready(r, "delete")
  /\ users' = [users EXCEPT ![stmt[r].id] = None]
  /\ sessions' = Accounts!SessionsWithout(stmt[r].id)
  /\ End(r) /\ Closed(r)
  /\ UNCHANGED <<issuedIds, minted, now>>

SessionRow(r) == [user |-> req[r].user, expires |-> req[r].expires]
CommitInsertSession(r) ==
  /\ Ready(r, "session")
  /\ sessions' = [sessions EXCEPT ![stmt[r].token] = SessionRow(r)]
  /\ minted' = minted \cup {stmt[r].token}
  /\ End(r) /\ Closed(r)
  /\ UNCHANGED <<users, issuedIds, now>>

(* A constraint refuses the statement, the connection is lost or the context *)
(* cancelled: the statement is rolled back and the handler answers an error. *)
(* A crash of the server does this to every request.                         *)
Fail(r) == Accounts!FailRequest(r) /\ Closed(r)

-----------------------------------------------------------------------------
(* The steps of the handlers that only read.                                 *)
Handler(r) ==
  /\ stmt[r] = None
  /\ \/ \E code \in Codes : Accounts!FindUserByCode(r, code)
     \/ Accounts!IssueSession(r) \/ Accounts!CountAdmins(r)
     \/ \E actor \in Ids :
          \/ Accounts!BeginCreate(r, actor)
          \/ \E target \in Ids :
               \/ Accounts!BeginDemote(r, actor, target)
               \/ Accounts!BeginPromote(r, actor, target)
               \/ Accounts!BeginRename(r, actor, target)
               \/ Accounts!BeginDelete(r, actor, target)
  /\ UNCHANGED stmt

PgTick == Accounts!Tick /\ UNCHANGED stmt

PgNext ==
  \/ PgTick
  \/ \E r \in Requests :
       \/ Handler(r)
       \/ ExecInsertUser(r) \/ ExecUpdateUser(r) \/ ExecDeleteUser(r)
       \/ ExecInsertSession(r)
       \/ CommitInsertUser(r) \/ CommitUpdateUser(r) \/ CommitDeleteUser(r)
       \/ CommitInsertSession(r)
       \/ Fail(r)

PgSpec == PgInit /\ [][PgNext]_pgVars

-----------------------------------------------------------------------------
(* A statement in flight is one its handler's step makes, and the accounts,  *)
(* the codes found through the column and the requests are as declared.      *)
PgTypeOK ==
  /\ Accounts!TypeOK
  /\ stmt \in [Requests -> Statement \cup {None}]
  /\ \A r \in Requests : stmt[r] # None =>
       CASE stmt[r].op = "insert"  -> req[r].pc = "create"
         [] stmt[r].op = "update"  -> req[r].pc \in {"flag", "name"} /\ stmt[r].id = req[r].target
         [] stmt[r].op = "delete"  -> req[r].pc = "delete" /\ stmt[r].id = req[r].target
         [] stmt[r].op = "session" -> req[r].pc = "session" /\ stmt[r].id = req[r].user

(* Statements of overlapping requests, committed in any order or not at all, *)
(* come to what MemoryStore does in critical sections: no rename undoes a    *)
(* change of rights, no code is given twice, no session is made for an       *)
(* account on its way out.                                                   *)
ImplementsAccounts == Accounts!Spec
=============================================================================
