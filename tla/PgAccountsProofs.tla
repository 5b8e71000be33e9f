--------------------------- MODULE PgAccountsProofs ---------------------------
(***************************************************************************)
(* The statements of PostgresStore, executed and committed by overlapping  *)
(* requests, implement the critical sections of module Accounts, for any   *)
(* number of accounts, codes, tokens and requests.  The argument: what a   *)
(* statement relied on when it was executed, the locks it took and the     *)
(* UNIQUE columns keep true until it is committed.                         *)
(***************************************************************************)
EXTENDS PgAccounts, TLAPS

Facts == INSTANCE AccountsProofs WITH codeToID <- [c \in Codes |-> UserWithCode(c)]

(* The rows a SELECT by access_code finds.                                  *)
Holders(c) == {id \in Ids : users[id] # None /\ users[id].code = c}

(* What the open statement of a request relies on.                          *)
InsertStands(r) ==
  /\ req[r].pc = "create"
  /\ stmt[r].id \notin issuedIds
  /\ Holders(stmt[r].code) = {}

UpdateStands(r) ==
  /\ req[r].pc \in {"flag", "name"} /\ stmt[r].id = req[r].target
  /\ users[req[r].target] # None
  /\ stmt[r].row = Updated(r)

DeleteStands(r) ==
  /\ req[r].pc = "delete" /\ stmt[r].id = req[r].target
  /\ users[req[r].target] # None

SessionStands(r) ==
  /\ req[r].pc = "session" /\ stmt[r].id = req[r].user
  /\ users[req[r].user] # None
  /\ stmt[r].token \notin minted

Stands(r) ==
  stmt[r] # None =>
    /\ stmt[r].op = "insert"  => InsertStands(r)
    /\ stmt[r].op = "update"  => UpdateStands(r)
    /\ stmt[r].op = "delete"  => DeleteStands(r)
    /\ stmt[r].op = "session" => SessionStands(r)

(* Two open statements that can stand side by side: no unique value twice, no *)
(* row with two writers, no session for a row on its way out.                 *)
Compatible(p, q) ==
  /\ p.op = "insert" /\ q.op = "insert" => p.id # q.id /\ p.code # q.code
  /\ p.op \in {"update", "delete"} /\ q.op \in {"update", "delete"} => p.id # q.id
  /\ p.op = "delete" /\ q.op = "session" => p.id # q.id
  /\ p.op = "session" /\ q.op = "delete" => p.id # q.id
  /\ p.op = "session" /\ q.op = "session" => p.token # q.token

Apart ==
  \A r, s \in Requests :
    r # s /\ stmt[r] # None /\ stmt[s] # None => Compatible(stmt[r], stmt[s])

PgInv ==
  /\ stmt \in [Requests -> Statement \cup {None}]
  /\ \A r \in Requests : Stands(r)
  /\ Apart

(***************************************************************************)
(* What module AccountsProofs says of the tables, through the column.      *)
(***************************************************************************)
AccountsInv == Facts!IInv

LEMMA AccountsInit == Accounts!Init => Facts!Init
BY DEF Accounts!Init, Facts!Init, Accounts!Idle, Facts!Idle

LEMMA AccountsInvInit == Accounts!Init => AccountsInv
BY AccountsInit, Facts!InitIInv, PgAccountsAssumption
DEF AccountsInv, Accounts!AccountsAssumption, Facts!AccountsAssumption,
    Accounts!Account, Facts!Account, Accounts!Session, Facts!Session

LEMMA AccountsNext ==
  [Accounts!Next]_Accounts!accountVars => [Facts!Next]_Facts!accountVars
BY DEF Accounts!Next, Facts!Next, Accounts!accountVars, Facts!accountVars,
    Accounts!storeVars, Facts!storeVars, Accounts!Tick, Facts!Tick,
    Accounts!FindUserByCode, Facts!FindUserByCode,
    Accounts!IssueSession, Facts!IssueSession,
    Accounts!CreateSession, Facts!CreateSession,
    Accounts!SessionUser, Facts!SessionUser,
    Accounts!CreateManagedUser, Facts!CreateManagedUser,
    Accounts!Fresh, Facts!Fresh, Accounts!Issued, Facts!Issued,
    Accounts!CountAdmins, Facts!CountAdmins, Accounts!Admins, Facts!Admins,
    Accounts!UpdateUserAdmin, Facts!UpdateUserAdmin,
    Accounts!UpdateUserName, Facts!UpdateUserName,
    Accounts!DeleteUser, Facts!DeleteUser,
    Accounts!IndexWithout, Facts!IndexWithout,
    Accounts!SessionsWithout, Facts!SessionsWithout,
    Accounts!FailRequest, Facts!FailRequest,
    Accounts!BeginCreate, Facts!BeginCreate, Accounts!BeginDemote, Facts!BeginDemote,
    Accounts!BeginPromote, Facts!BeginPromote, Accounts!BeginRename, Facts!BeginRename,
    Accounts!BeginDelete, Facts!BeginDelete, Accounts!NotSelf, Facts!NotSelf,
    Accounts!Admit, Facts!Admit, Accounts!Accepts, Facts!Accepts,
    Accounts!Alive, Facts!Alive, Accounts!Entitled, Facts!Entitled,
    Accounts!IsAdmin, Facts!IsAdmin, Accounts!Become, Facts!Become,
    Accounts!End, Facts!End, Accounts!Idle, Facts!Idle

LEMMA AccountsInvStep ==
  AccountsInv /\ [Accounts!Next]_Accounts!accountVars => AccountsInv'
BY AccountsNext, Facts!NextIInv, PgAccountsAssumption
DEF AccountsInv, Accounts!AccountsAssumption, Facts!AccountsAssumption,
    Accounts!Account, Facts!Account, Accounts!Session, Facts!Session

LEMMA AccountsInvMeans ==
  AccountsInv => /\ Accounts!TypeOK
                 /\ Accounts!CodesFindTheirUser
                 /\ Accounts!SessionsHaveUsers
BY DEF AccountsInv, Facts!IInv, Facts!TypeOK, Accounts!TypeOK,
   Facts!CodesFindTheirUser, Accounts!CodesFindTheirUser,
   Facts!SessionsHaveUsers, Accounts!SessionsHaveUsers,
   Facts!Account, Accounts!Account, Facts!Session, Accounts!Session,
   Facts!Request, Accounts!Request, Facts!Idle, Accounts!Idle

(* A statement is the record of its kind.                                  *)
LEMMA StatementAt ==
  ASSUME NEW q \in Statement
  PROVE  /\ q.op \in {"insert", "update", "delete", "session"}
         /\ q.op = "insert" => q \in [op : {"insert"}, id : Ids, code : Codes]
         /\ q.op = "update" =>
              q \in [op : {"update"}, id : Ids, row : Accounts!Account]
         /\ q.op = "delete" => q \in [op : {"delete"}, id : Ids]
         /\ q.op = "session" => q \in [op : {"session"}, id : Ids, token : Tokens]
BY DEF Statement

LEMMA RequestAt ==
  ASSUME NEW q \in Accounts!Request
  PROVE  /\ q.pc = "session" =>
              q \in [pc : {"session"}, user : Ids, code : Codes, expires : Nat]
         /\ q.pc = "create" => q \in [pc : {"create"}, actor : Ids, name : Names]
         /\ q.pc = "flag" =>
              q \in [pc : {"flag"}, actor : Ids, target : Ids, admin : BOOLEAN,
                     name : Names \cup {NoName}]
         /\ q.pc = "name" =>
              q \in [pc : {"name"}, actor : Ids, target : Ids, name : Names]
         /\ q.pc = "delete" => q \in [pc : {"delete"}, actor : Ids, target : Ids]
BY DEF Accounts!Request, Accounts!Idle

(***************************************************************************)
(* The SELECT by access_code as an index.                                  *)
(***************************************************************************)
One(S) == IF S = {} THEN None ELSE CHOOSE id \in S : TRUE

LEMMA SelectsOne == \A c : UserWithCode(c) = One(Holders(c))
BY DEF UserWithCode, One, Holders

LEMMA OneOf == One({}) = None /\ \A id : One({id}) = id
BY DEF One

LEMMA NoneFree ==
  ASSUME NEW c \in Codes
  PROVE  UserWithCode(c) = None <=> Holders(c) = {}
<1>1. UserWithCode(c) = One(Holders(c))
  BY SelectsOne
<1>2. ASSUME Holders(c) # {} PROVE One(Holders(c)) \in Ids
  BY <1>2 DEF One, Holders
<1>3. QED
  BY <1>1, <1>2, PgAccountsAssumption DEF One, Accounts!AccountsAssumption

(* The index follows the rows: what it finds changes with who has the code. *)
LEMMA SameHolders ==
  ASSUME \A c \in Codes : Holders(c)' = Holders(c)
  PROVE  [c \in Codes |-> UserWithCode(c)]' = [c \in Codes |-> UserWithCode(c)]
<1>1. ASSUME NEW c \in Codes PROVE UserWithCode(c)' = UserWithCode(c)
  <2>1. UserWithCode(c) = One(Holders(c)) /\ UserWithCode(c)' = One(Holders(c)')
    BY DEF UserWithCode, One, Holders
  <2>2. QED
    BY <2>1
<1>2. QED
  BY <1>1

LEMMA OneCodeChanges ==
  ASSUME NEW k \in Codes, NEW H,
         \A c \in Codes : Holders(c)' = IF c = k THEN H ELSE Holders(c)
  PROVE  [c \in Codes |-> UserWithCode(c)]' =
           [[c \in Codes |-> UserWithCode(c)] EXCEPT ![k] = One(H)]
<1>1. ASSUME NEW c \in Codes
      PROVE  UserWithCode(c)' = IF c = k THEN One(H) ELSE UserWithCode(c)
  <2>1. UserWithCode(c) = One(Holders(c)) /\ UserWithCode(c)' = One(Holders(c)')
    BY DEF UserWithCode, One, Holders
  <2>2. QED
    BY <2>1
<1>2. QED
  BY <1>1

(***************************************************************************)
(* PgInv from step to step.  A step concerns one request; the statements   *)
(* of the others must not be disturbed by what it does to the tables.      *)
(***************************************************************************)
Undisturbed(s) ==
  stmt[s] # None =>
    /\ stmt[s].op = "insert" =>
         /\ stmt[s].id \notin issuedIds'
         /\ \A id \in Ids : users'[id] # None => users'[id].code # stmt[s].code
    /\ stmt[s].op \in {"update", "delete"} => users'[stmt[s].id] = users[stmt[s].id]
    /\ stmt[s].op = "session" =>
         users'[stmt[s].id] # None /\ stmt[s].token \notin minted'

LEMMA KeepsStanding ==
  ASSUME NEW s \in Requests, Stands(s), Undisturbed(s),
         stmt'[s] = stmt[s], req'[s] = req[s]
  PROVE  Stands(s)'
<1>1. SUFFICES ASSUME stmt[s] # None PROVE Stands(s)'
  BY DEF Stands
<1>2. stmt[s].op = "insert" => InsertStands(s)'
  BY <1>1 DEF Stands, Undisturbed, InsertStands, Holders
<1>3. stmt[s].op = "update" => UpdateStands(s)'
  BY <1>1 DEF Stands, Undisturbed, UpdateStands, Updated
<1>4. stmt[s].op = "delete" => DeleteStands(s)'
  BY <1>1 DEF Stands, Undisturbed, DeleteStands
<1>5. stmt[s].op = "session" => SessionStands(s)'
  BY <1>1 DEF Stands, Undisturbed, SessionStands
<1>6. QED
  BY <1>1, <1>2, <1>3, <1>4, <1>5 DEF Stands

LEMMA OneRequestSteps ==
  ASSUME PgInv, NEW r \in Requests,
         \A s \in Requests \ {r} :
           stmt'[s] = stmt[s] /\ req'[s] = req[s] /\ Undisturbed(s),
         stmt' \in [Requests -> Statement \cup {None}],
         Stands(r)',
         \A s \in Requests \ {r} :
           stmt'[r] # None /\ stmt[s] # None => Compatible(stmt'[r], stmt[s])
  PROVE  PgInv'
<1>1. \A s \in Requests : Stands(s)'
  BY KeepsStanding DEF PgInv
<1>2. Apart'
  <2>1. \A p, q : Compatible(p, q) => Compatible(q, p)
    BY DEF Compatible
  <2>2. \A t, s \in Requests : t # s /\ stmt'[t] # None /\ stmt'[s] # None
          => Compatible(stmt'[t], stmt'[s])
    BY <2>1 DEF PgInv, Apart
  <2>3. QED
    BY <2>2 DEF Apart, Compatible
<1>3. QED
  BY <1>1, <1>2 DEF PgInv

(* Tables that stay as they are disturb nobody.                            *)
LEMMA QuietTables ==
  ASSUME PgInv, AccountsInv, UNCHANGED pgTables, NEW s \in Requests
  PROVE  Undisturbed(s)
<1>1. UNCHANGED <<users, issuedIds, minted>> /\ Stands(s)
  BY DEF pgTables, PgInv
<1>2. QED
  BY <1>1 DEF Stands, Undisturbed, InsertStands, UpdateStands, DeleteStands,
     SessionStands, Holders

(* A request whose statement is not open, or is closed, has nothing to stand. *)
LEMMA ClosingSteps ==
  ASSUME PgInv, NEW r \in Requests, Closed(r),
         \A s \in Requests \ {r} : req'[s] = req[s] /\ Undisturbed(s)
  PROVE  PgInv'
<1>1. \A s \in Requests \ {r} : stmt'[s] = stmt[s]
  BY DEF Closed, PgInv
<1>2. stmt' \in [Requests -> Statement \cup {None}] /\ stmt'[r] = None
  BY DEF Closed, PgInv
<1>3. Stands(r)'
  BY <1>2 DEF Stands
<1>4. QED
  BY <1>1, <1>2, <1>3, OneRequestSteps

(***************************************************************************)
(* Executing a statement.                                                  *)
(***************************************************************************)
LEMMA ExecuteSteps ==
  ASSUME PgInv, AccountsInv, NEW r \in Requests, NEW statement \in Statement,
         Execute(r, statement), Stands(r)',
         \A s \in Requests : stmt[s] # None => Compatible(statement, stmt[s])
  PROVE  PgInv'
<1>1. /\ stmt' \in [Requests -> Statement \cup {None}] /\ stmt'[r] = statement
      /\ \A s \in Requests \ {r} : stmt'[s] = stmt[s] /\ req'[s] = req[s]
  BY DEF Execute, PgInv
<1>2. \A s \in Requests : Undisturbed(s)
  BY QuietTables DEF Execute
<1>3. QED
  BY <1>1, <1>2, OneRequestSteps

LEMMA ExecInsertUserInv ==
  ASSUME PgInv, AccountsInv, NEW r \in Requests, ExecInsertUser(r)
  PROVE  PgInv'
<1>1. PICK id \in Ids, code \in Codes :
        /\ NewId(id) /\ CodeFree(code)
        /\ Execute(r, [op |-> "insert", id |-> id, code |-> code])
  BY DEF ExecInsertUser
<1> DEFINE statement == [op |-> "insert", id |-> id, code |-> code]
<1>2. statement \in Statement
  BY DEF Statement
<1>3. stmt'[r] = statement /\ UNCHANGED <<users, issuedIds, req>> /\ req[r].pc = "create"
  BY <1>1 DEF Execute, PgInv, pgTables, ExecInsertUser
<1>4. Holders(code) = {} /\ id \notin issuedIds
  BY <1>1, NoneFree DEF CodeFree, NewId
<1>5. Stands(r)'
  BY <1>3, <1>4 DEF Stands, InsertStands, Holders
<1>6. \A s \in Requests : stmt[s] # None => Compatible(statement, stmt[s])
  BY <1>1 DEF CodeFree, NewId, Open, Compatible
<1>7. QED
  BY <1>1, <1>2, <1>5, <1>6, ExecuteSteps

LEMMA ExecUpdateUserInv ==
  ASSUME PgInv, AccountsInv, NEW r \in Requests, ExecUpdateUser(r)
  PROVE  PgInv'
<1> DEFINE id == req[r].target
           statement == [op |-> "update", id |-> id, row |-> Updated(r)]
<1>1. /\ req[r].pc \in {"flag", "name"} /\ users[id] # None
      /\ RowFree(id) /\ Execute(r, statement)
  BY DEF ExecUpdateUser
<1>2. statement \in Statement
  <2>1. req[r] \in Accounts!Request /\ id \in Ids /\ users[id] \in Accounts!Account
    <3>1. req[r] \in Accounts!Request
      BY AccountsInvMeans DEF Accounts!TypeOK
    <3>2. id \in Ids
      BY <1>1, <3>1, RequestAt
    <3>3. QED
      BY <1>1, <3>1, <3>2, AccountsInvMeans DEF Accounts!TypeOK
  <2>2. Updated(r) \in Accounts!Account
    BY <1>1, <2>1, RequestAt DEF Updated, Accounts!Account
  <2>3. QED
    BY <2>1, <2>2 DEF Statement
<1>3. stmt'[r] = statement /\ UNCHANGED <<users, req>>
  BY <1>1 DEF Execute, PgInv, pgTables
<1>4. Updated(r)' = Updated(r)
  BY <1>3 DEF Updated
<1>5. Stands(r)'
  BY <1>1, <1>3, <1>4 DEF Stands, UpdateStands
<1>6. \A s \in Requests : stmt[s] # None => Compatible(statement, stmt[s])
  BY <1>1 DEF RowFree, Open, Compatible
<1>7. QED
  BY <1>1, <1>2, <1>5, <1>6, ExecuteSteps

LEMMA ExecDeleteUserInv ==
  ASSUME PgInv, AccountsInv, NEW r \in Requests, ExecDeleteUser(r)
  PROVE  PgInv'
<1> DEFINE id == req[r].target
           statement == [op |-> "delete", id |-> id]
<1>1. /\ req[r].pc = "delete" /\ users[id] # None
      /\ RowFree(id) /\ NotReferenced(id) /\ Execute(r, statement)
  BY DEF ExecDeleteUser
<1>2. statement \in Statement
  <2>1. req[r] \in Accounts!Request
    BY AccountsInvMeans DEF Accounts!TypeOK
  <2>2. QED
    BY <1>1, <2>1, RequestAt DEF Statement
<1>3. stmt'[r] = statement /\ UNCHANGED <<users, req>>
  BY <1>1 DEF Execute, PgInv, pgTables
<1>4. Stands(r)'
  BY <1>1, <1>3 DEF Stands, DeleteStands
<1>5. \A s \in Requests : stmt[s] # None => Compatible(statement, stmt[s])
  BY <1>1 DEF RowFree, NotReferenced, Open, Compatible
<1>6. QED
  BY <1>1, <1>2, <1>4, <1>5, ExecuteSteps

LEMMA ExecInsertSessionInv ==
  ASSUME PgInv, AccountsInv, NEW r \in Requests, ExecInsertSession(r)
  PROVE  PgInv'
<1>1. PICK t \in Tokens :
        /\ NewToken(t)
        /\ Execute(r, [op |-> "session", id |-> req[r].user, token |-> t])
  BY DEF ExecInsertSession
<1> DEFINE statement == [op |-> "session", id |-> req[r].user, token |-> t]
<1>2. /\ req[r].pc = "session" /\ users[req[r].user] # None
      /\ \A s \in Open("delete") : stmt[s].id # req[r].user
  BY DEF ExecInsertSession, UserStays
<1>3. statement \in Statement
  <2>1. req[r] \in Accounts!Request
    BY AccountsInvMeans DEF Accounts!TypeOK
  <2>2. QED
    BY <1>2, <2>1, RequestAt DEF Statement
<1>4. stmt'[r] = statement /\ UNCHANGED <<users, minted, req>>
  BY <1>1 DEF Execute, PgInv, pgTables
<1>5. Stands(r)'
  BY <1>1, <1>2, <1>4 DEF Stands, SessionStands, NewToken
<1>6. \A s \in Requests : stmt[s] # None => Compatible(statement, stmt[s])
  BY <1>1, <1>2 DEF NewToken, Open, Compatible
<1>7. QED
  BY <1>1, <1>3, <1>5, <1>6, ExecuteSteps

(***************************************************************************)
(* Committing it.  Each commit is the critical section of module Accounts. *)
(***************************************************************************)
LEMMA OpenStatement ==
  ASSUME PgInv, NEW op, NEW r \in Requests, Ready(r, op)
  PROVE  /\ stmt[r] # None /\ stmt[r] \in Statement /\ stmt[r].op = op
         /\ Stands(r)
         /\ \A s \in Requests \ {r} :
              /\ Stands(s)
              /\ stmt[s] # None => stmt[s] \in Statement /\ Compatible(stmt[r], stmt[s])
BY DEF PgInv, Apart, Ready, Open

LEMMA CommitInsertUserSteps ==
  ASSUME PgInv, AccountsInv, NEW r \in Requests, CommitInsertUser(r)
  PROVE  PgInv' /\ Accounts!CreateManagedUser(r)
<1> DEFINE id == stmt[r].id
           code == stmt[r].code
           row == [name |-> req[r].name, code |-> code, admin |-> FALSE]
<1>1. /\ users' = [users EXCEPT ![id] = row]
      /\ issuedIds' = issuedIds \cup {id}
      /\ req' = [req EXCEPT ![r] = Accounts!Idle] /\ Closed(r)
      /\ UNCHANGED <<sessions, minted, now>>
      /\ Ready(r, "insert")
  BY DEF CommitInsertUser, End
<1>2. id \in Ids /\ code \in Codes
  BY <1>1, OpenStatement, StatementAt
<1>3. req[r].pc = "create" /\ id \notin issuedIds /\ Holders(code) = {}
  BY <1>1, OpenStatement DEF Stands, InsertStands
<1>4. users \in [Ids -> Accounts!Account \cup {None}] /\ users[id] = None
  BY <1>2, <1>3, AccountsInvMeans DEF Accounts!TypeOK
<1>5. row # None
  <2>1. req[r].name \in Names
    BY <1>3, AccountsInvMeans, RequestAt DEF Accounts!TypeOK
  <2>2. row \in Accounts!Account
    BY <1>2, <2>1 DEF Accounts!Account
  <2>3. QED
    BY <2>2, PgAccountsAssumption DEF Accounts!AccountsAssumption
<1>6. [c \in Codes |-> UserWithCode(c)]' =
        [[c \in Codes |-> UserWithCode(c)] EXCEPT ![code] = id]
  <2>1. \A c \in Codes : Holders(c)' = IF c = code THEN {id} ELSE Holders(c)
    <3>1. \A i \in Ids : users'[i] = IF i = id THEN row ELSE users[i]
      BY <1>1, <1>4
    <3>2. row.code = code
      OBVIOUS
    <3> HIDE DEF id, code, row
    <3>3. QED
      BY <1>2, <1>3, <1>4, <1>5, <3>1, <3>2 DEF Holders
  <2> HIDE DEF id, code
  <2>2. QED
    BY <1>2, <2>1, OneCodeChanges, OneOf
<1>7. Accounts!CreateManagedUser(r)
  <2>1. [c \in Codes |-> UserWithCode(c)][code] = None
    BY <1>2, <1>3, NoneFree
  <2>2. QED
    BY <1>1, <1>2, <1>3, <1>6, <2>1
    DEF Accounts!CreateManagedUser, Accounts!Fresh, Accounts!Issued, Accounts!End,
        Accounts!Become
<1>8. ASSUME NEW s \in Requests \ {r} PROVE req'[s] = req[s] /\ Undisturbed(s)
  <2>1. req'[s] = req[s]
    BY <1>1, AccountsInvMeans DEF Accounts!TypeOK
  <2>2. stmt[s] # None => Compatible(stmt[r], stmt[s]) /\ Stands(s) /\ stmt[s] \in Statement
    BY <1>1, OpenStatement
  <2>3. stmt[r].op = "insert"
    BY <1>1, OpenStatement
  <2>4. stmt[s] # None /\ stmt[s].op = "insert" =>
          /\ stmt[s].id \notin issuedIds'
          /\ \A i \in Ids : users'[i] # None => users'[i].code # stmt[s].code
    BY <1>1, <1>4, <2>2, <2>3 DEF Stands, InsertStands, Holders, Compatible
  <2>5. stmt[s] # None /\ stmt[s].op \in {"update", "delete", "session"} =>
          users'[stmt[s].id] = users[stmt[s].id] /\ users[stmt[s].id] # None
    BY <1>1, <1>4, <2>2, StatementAt
    DEF Stands, UpdateStands, DeleteStands, SessionStands
  <2>6. stmt[s] # None /\ stmt[s].op = "session" => stmt[s].token \notin minted'
    BY <1>1, <2>2 DEF Stands, SessionStands
  <2>7. QED
    BY <2>1, <2>4, <2>5, <2>6 DEF Undisturbed
<1>9. QED
  BY <1>1, <1>7, <1>8, ClosingSteps

LEMMA CommitUpdateUserSteps ==
  ASSUME PgInv, AccountsInv, NEW r \in Requests, CommitUpdateUser(r)
  PROVE  PgInv' /\ (Accounts!UpdateUserAdmin(r) \/ Accounts!UpdateUserName(r))
<1> DEFINE id == req[r].target
           row == Updated(r)
<1>1. /\ Ready(r, "update") /\ AfterUpdate(r) /\ Closed(r)
      /\ UNCHANGED <<issuedIds, sessions, minted, now>>
  BY DEF CommitUpdateUser
<1>2. /\ req[r].pc \in {"flag", "name"} /\ stmt[r].id = id /\ stmt[r].row = row
      /\ users[id] # None
  BY <1>1, OpenStatement DEF Stands, UpdateStands
<1>3. /\ users \in [Ids -> Accounts!Account \cup {None}]
      /\ req \in [Requests -> Accounts!Request]
  BY AccountsInvMeans DEF Accounts!TypeOK
<1>4. id \in Ids /\ users[id] \in Accounts!Account
  BY <1>2, <1>3, RequestAt
<1>5. row \in Accounts!Account /\ row # None /\ row.code = users[id].code
  <2>1. row \in Accounts!Account /\ row.code = users[id].code
    BY <1>2, <1>3, <1>4, RequestAt DEF Updated, Accounts!Account
  <2>2. QED
    BY <2>1, PgAccountsAssumption DEF Accounts!AccountsAssumption
<1>6. \A i \in Ids : users'[i] = IF i = id THEN row ELSE users[i]
  BY <1>2, <1>3 DEF CommitUpdateUser
<1>7. [c \in Codes |-> UserWithCode(c)]' = [c \in Codes |-> UserWithCode(c)]
  <2> HIDE DEF id, row
  <2>1. \A c \in Codes : Holders(c)' = Holders(c)
    BY <1>2, <1>5, <1>6 DEF Holders
  <2>2. QED
    BY <2>1, SameHolders
<1>8. ASSUME req[r].pc = "flag" PROVE Accounts!UpdateUserAdmin(r)
  <2>1. users' = [users EXCEPT ![id].admin = req[r].admin]
    BY <1>2, <1>3, <1>4, <1>8 DEF CommitUpdateUser, Updated
  <2>2. QED
    BY <1>1, <1>2, <1>7, <1>8, <2>1
    DEF Accounts!UpdateUserAdmin, AfterUpdate, Accounts!End, Accounts!Become, End
<1>9. ASSUME req[r].pc = "name" PROVE Accounts!UpdateUserName(r)
  <2>1. users' = [users EXCEPT ![id].name = req[r].name]
    BY <1>2, <1>3, <1>4, <1>9 DEF CommitUpdateUser, Updated
  <2>2. QED
    BY <1>1, <1>2, <1>7, <1>9, <2>1
    DEF Accounts!UpdateUserName, AfterUpdate, Accounts!End, Accounts!Become, End
<1>10. ASSUME NEW s \in Requests \ {r} PROVE req'[s] = req[s] /\ Undisturbed(s)
  <2>1. req'[s] = req[s]
    BY <1>1, <1>3 DEF AfterUpdate, End
  <2>2. stmt[s] # None => Compatible(stmt[r], stmt[s]) /\ Stands(s) /\ stmt[s] \in Statement
    BY <1>1, OpenStatement
  <2>3. stmt[r].op = "update"
    BY <1>1, OpenStatement
  <2> HIDE DEF id, row
  <2>4. stmt[s] # None /\ stmt[s].op = "insert" =>
          /\ stmt[s].id \notin issuedIds'
          /\ \A i \in Ids : users'[i] # None => users'[i].code # stmt[s].code
    BY <1>1, <1>2, <1>4, <1>5, <1>6, <2>2 DEF Stands, InsertStands, Holders
  <2>5. stmt[s] # None /\ stmt[s].op \in {"update", "delete"} =>
          users'[stmt[s].id] = users[stmt[s].id]
    BY <1>2, <1>6, <2>2, <2>3, StatementAt DEF Compatible
  <2>6. stmt[s] # None /\ stmt[s].op = "session" =>
          users'[stmt[s].id] # None /\ stmt[s].token \notin minted'
    BY <1>1, <1>5, <1>6, <2>2, StatementAt DEF Stands, SessionStands
  <2>7. QED
    BY <2>1, <2>4, <2>5, <2>6 DEF Undisturbed
<1>11. QED
  BY <1>1, <1>2, <1>8, <1>9, <1>10, ClosingSteps

LEMMA CommitDeleteUserSteps ==
  ASSUME PgInv, AccountsInv, NEW r \in Requests, CommitDeleteUser(r)
  PROVE  PgInv' /\ Accounts!DeleteUser(r)
<1> DEFINE id == req[r].target
           index == [c \in Codes |-> UserWithCode(c)]
<1>1. /\ Ready(r, "delete") /\ Closed(r)
      /\ req' = [req EXCEPT ![r] = Accounts!Idle]
      /\ UNCHANGED <<issuedIds, minted, now>>
  BY DEF CommitDeleteUser, End
<1>2. req[r].pc = "delete" /\ stmt[r].id = id /\ users[id] # None
  BY <1>1, OpenStatement DEF Stands, DeleteStands
<1>3. /\ users \in [Ids -> Accounts!Account \cup {None}]
      /\ req \in [Requests -> Accounts!Request]
      /\ \A c \in Codes, i \in Ids :
           index[c] = i <=> users[i] # None /\ users[i].code = c
  BY AccountsInvMeans DEF Accounts!TypeOK, Accounts!CodesFindTheirUser
<1>4. id \in Ids /\ users[id] \in Accounts!Account /\ users[id].code \in Codes
  <2>1. id \in Ids /\ users[id] \in Accounts!Account
    BY <1>2, <1>3, RequestAt
  <2>2. QED
    BY <2>1 DEF Accounts!Account
<1>5. /\ users' = [users EXCEPT ![id] = None]
      /\ sessions' = Accounts!SessionsWithout(id)
      /\ \A i \in Ids : users'[i] = IF i = id THEN None ELSE users[i]
  BY <1>2, <1>3 DEF CommitDeleteUser
<1>6. index' = [index EXCEPT ![users[id].code] = None]
  <2>1. \A c \in Codes : Holders(c)' = IF c = users[id].code THEN {} ELSE Holders(c)
    <3> HIDE DEF id, index
    <3>1. QED
      BY <1>2, <1>3, <1>4, <1>5 DEF Holders
  <2> HIDE DEF id
  <2>2. QED
    BY <1>4, <2>1, OneCodeChanges, OneOf
<1>7. Accounts!DeleteUser(r)
  BY <1>1, <1>2, <1>5, <1>6
  DEF Accounts!DeleteUser, Accounts!IndexWithout, Accounts!End, Accounts!Become
<1>8. ASSUME NEW s \in Requests \ {r} PROVE req'[s] = req[s] /\ Undisturbed(s)
  <2>1. req'[s] = req[s]
    BY <1>1, <1>3
  <2>2. stmt[s] # None => Compatible(stmt[r], stmt[s]) /\ Stands(s) /\ stmt[s] \in Statement
    BY <1>1, OpenStatement
  <2>3. stmt[r].op = "delete"
    BY <1>1, OpenStatement
  <2> HIDE DEF id, index
  <2>4. stmt[s] # None /\ stmt[s].op = "insert" =>
          /\ stmt[s].id \notin issuedIds'
          /\ \A i \in Ids : users'[i] # None => users'[i].code # stmt[s].code
    BY <1>1, <1>5, <2>2 DEF Stands, InsertStands, Holders
  <2>5. stmt[s] # None /\ stmt[s].op \in {"update", "delete", "session"} =>
          users'[stmt[s].id] = users[stmt[s].id]
    BY <1>2, <1>5, <2>2, <2>3, StatementAt DEF Compatible
  <2>6. stmt[s] # None /\ stmt[s].op = "session" =>
          users'[stmt[s].id] # None /\ stmt[s].token \notin minted'
    BY <1>1, <2>2, <2>5 DEF Stands, SessionStands
  <2>7. QED
    BY <2>1, <2>4, <2>5, <2>6 DEF Undisturbed
<1>9. QED
  BY <1>1, <1>7, <1>8, ClosingSteps

LEMMA CommitInsertSessionSteps ==
  ASSUME PgInv, AccountsInv, NEW r \in Requests, CommitInsertSession(r)
  PROVE  PgInv' /\ Accounts!CreateSession(r)
<1> DEFINE token == stmt[r].token
<1>1. /\ Ready(r, "session") /\ Closed(r)
      /\ req' = [req EXCEPT ![r] = Accounts!Idle]
      /\ sessions' = [sessions EXCEPT ![token] =
                        [user |-> req[r].user, expires |-> req[r].expires]]
      /\ minted' = minted \cup {token}
      /\ UNCHANGED <<users, issuedIds, now>>
  BY DEF CommitInsertSession, SessionRow, End
<1>2. token \in Tokens
  BY <1>1, OpenStatement, StatementAt
<1>3. req[r].pc = "session" /\ users[req[r].user] # None /\ token \notin minted
  BY <1>1, OpenStatement DEF Stands, SessionStands
<1>4. [c \in Codes |-> UserWithCode(c)]' = [c \in Codes |-> UserWithCode(c)]
  BY <1>1, SameHolders DEF Holders
<1>5. Accounts!CreateSession(r)
  BY <1>1, <1>2, <1>3, <1>4
  DEF Accounts!CreateSession, Accounts!SessionUser, Accounts!End, Accounts!Become
<1>6. ASSUME NEW s \in Requests \ {r} PROVE req'[s] = req[s] /\ Undisturbed(s)
  <2>1. req'[s] = req[s]
    BY <1>1, AccountsInvMeans DEF Accounts!TypeOK
  <2>2. stmt[s] # None => Compatible(stmt[r], stmt[s]) /\ Stands(s)
    BY <1>1, OpenStatement
  <2>3. stmt[r].op = "session"
    BY <1>1, OpenStatement
  <2>4. QED
    BY <1>1, <2>1, <2>2, <2>3
    DEF Undisturbed, Compatible, Stands, InsertStands, SessionStands, Holders
<1>7. QED
  BY <1>1, <1>5, <1>6, ClosingSteps

(***************************************************************************)
(* The steps that write nothing.                                           *)
(***************************************************************************)
LEMMA FailSteps ==
  ASSUME PgInv, AccountsInv, NEW r \in Requests, Fail(r)
  PROVE  PgInv'
<1>1. Closed(r) /\ UNCHANGED pgTables /\ req' = [req EXCEPT ![r] = Accounts!Idle]
  BY DEF Fail, Accounts!FailRequest, Accounts!End, Accounts!Become, Accounts!storeVars,
     pgTables
<1>2. \A s \in Requests \ {r} : req'[s] = req[s]
  BY <1>1, AccountsInvMeans DEF Accounts!TypeOK
<1>3. QED
  BY <1>1, <1>2, QuietTables, ClosingSteps

LEMMA HandlerReads ==
  ASSUME AccountsInv, NEW r \in Requests, Handler(r)
  PROVE  UNCHANGED pgTables /\ \A s \in Requests \ {r} : req'[s] = req[s]
<1>1. req \in [Requests -> Accounts!Request]
  BY AccountsInvMeans DEF Accounts!TypeOK
<1>2. ASSUME NEW held, Accounts!Become(r, held), UNCHANGED Accounts!storeVars
      PROVE  UNCHANGED pgTables /\ \A s \in Requests \ {r} : req'[s] = req[s]
  BY <1>1, <1>2 DEF Accounts!Become, Accounts!storeVars, pgTables
<1>3. ASSUME NEW held, NEW actor \in Ids, Accounts!Admit(r, actor, held)
      PROVE  UNCHANGED pgTables /\ \A s \in Requests \ {r} : req'[s] = req[s]
  <2>1. Accounts!Become(r, held) /\ UNCHANGED Accounts!storeVars
    BY <1>3 DEF Accounts!Admit
  <2>2. QED
    BY <1>2, <2>1
<1>4. ASSUME NEW code \in Codes, Accounts!FindUserByCode(r, code)
      PROVE  UNCHANGED pgTables /\ \A s \in Requests \ {r} : req'[s] = req[s]
  BY <1>2, <1>4 DEF Accounts!FindUserByCode
<1>5. ASSUME Accounts!IssueSession(r)
      PROVE  UNCHANGED pgTables /\ \A s \in Requests \ {r} : req'[s] = req[s]
  BY <1>2, <1>5 DEF Accounts!IssueSession
<1>6. ASSUME Accounts!CountAdmins(r)
      PROVE  UNCHANGED pgTables /\ \A s \in Requests \ {r} : req'[s] = req[s]
  BY <1>1, <1>6 DEF Accounts!CountAdmins, Accounts!storeVars, pgTables
<1>7. ASSUME NEW actor \in Ids, NEW target \in Ids,
             \/ Accounts!BeginCreate(r, actor)
             \/ Accounts!BeginDemote(r, actor, target)
             \/ Accounts!BeginPromote(r, actor, target)
             \/ Accounts!BeginRename(r, actor, target)
             \/ Accounts!BeginDelete(r, actor, target)
      PROVE  UNCHANGED pgTables /\ \A s \in Requests \ {r} : req'[s] = req[s]
  BY <1>3, <1>7 DEF Accounts!BeginCreate, Accounts!BeginDemote, Accounts!BeginPromote,
     Accounts!BeginRename, Accounts!BeginDelete
<1>8. QED
  BY <1>4, <1>5, <1>6, <1>7 DEF Handler

LEMMA HandlerSteps ==
  ASSUME PgInv, AccountsInv, NEW r \in Requests, Handler(r)
  PROVE  PgInv'
<1>1. Closed(r)
  BY DEF Handler, Closed, PgInv
<1>2. QED
  BY <1>1, HandlerReads, QuietTables, ClosingSteps

LEMMA TickSteps ==
  ASSUME PgInv, AccountsInv, PgTick
  PROVE  PgInv'
<1>1. UNCHANGED pgTables /\ UNCHANGED <<req, stmt>>
  BY DEF PgTick, Accounts!Tick, Accounts!storeVars, pgTables
<1>2. \A s \in Requests : Stands(s)'
  BY <1>1, QuietTables, KeepsStanding DEF PgInv
<1>3. QED
  BY <1>1, <1>2 DEF PgInv, Apart, Compatible

LEMMA StutterSteps ==
  ASSUME PgInv, AccountsInv, UNCHANGED pgVars
  PROVE  PgInv' /\ UNCHANGED Accounts!accountVars
<1>1. UNCHANGED pgTables /\ UNCHANGED <<now, req, stmt>>
  BY DEF pgVars
<1>2. \A s \in Requests : Stands(s)'
  BY <1>1, QuietTables, KeepsStanding DEF PgInv
<1>3. PgInv'
  BY <1>1, <1>2 DEF PgInv, Apart, Compatible
<1>4. UNCHANGED Accounts!accountVars
  BY <1>1, SameHolders DEF Holders, pgTables, Accounts!accountVars, Accounts!storeVars
<1>5. QED
  BY <1>3, <1>4

(* An executed statement that is not committed changes nothing to be seen. *)
LEMMA ExecutionIsHidden ==
  ASSUME NEW r \in Requests, NEW statement, Execute(r, statement)
  PROVE  UNCHANGED Accounts!accountVars
BY SameHolders DEF Execute, Holders, pgTables, Accounts!accountVars, Accounts!storeVars

(* Every step keeps the invariant, and is a step of module Accounts or none. *)
LEMMA PgStep ==
  PgInv /\ AccountsInv /\ [PgNext]_pgVars =>
    PgInv' /\ [Accounts!Next]_Accounts!accountVars
<1>1. SUFFICES ASSUME PgInv, AccountsInv, [PgNext]_pgVars
               PROVE  PgInv' /\ [Accounts!Next]_Accounts!accountVars
  OBVIOUS
<1>2. CASE UNCHANGED pgVars
  BY <1>1, <1>2, StutterSteps
<1>3. CASE PgTick
  BY <1>1, <1>3, TickSteps DEF PgTick, Accounts!Next
<1>4. ASSUME NEW r \in Requests,
             \/ ExecInsertUser(r) \/ ExecUpdateUser(r)
             \/ ExecDeleteUser(r) \/ ExecInsertSession(r)
      PROVE  PgInv' /\ [Accounts!Next]_Accounts!accountVars
  <2>1. PgInv'
    BY <1>1, <1>4, ExecInsertUserInv, ExecUpdateUserInv, ExecDeleteUserInv,
       ExecInsertSessionInv
  <2>2. \E statement : Execute(r, statement)
    BY <1>4 DEF ExecInsertUser, ExecUpdateUser, ExecDeleteUser, ExecInsertSession
  <2>3. QED
    BY <2>1, <2>2, ExecutionIsHidden
<1>5. ASSUME NEW r \in Requests,
             \/ CommitInsertUser(r) \/ CommitUpdateUser(r)
             \/ CommitDeleteUser(r) \/ CommitInsertSession(r)
      PROVE  PgInv' /\ [Accounts!Next]_Accounts!accountVars
  BY <1>1, <1>5, CommitInsertUserSteps, CommitUpdateUserSteps, CommitDeleteUserSteps,
     CommitInsertSessionSteps DEF Accounts!Next
<1>6. ASSUME NEW r \in Requests, Fail(r)
      PROVE  PgInv' /\ [Accounts!Next]_Accounts!accountVars
  BY <1>1, <1>6, FailSteps DEF Fail, Accounts!Next
<1>7. ASSUME NEW r \in Requests, Handler(r)
      PROVE  PgInv' /\ [Accounts!Next]_Accounts!accountVars
  <2>1. PgInv'
    BY <1>1, <1>7, HandlerSteps
  <2>2. Accounts!Next
    BY <1>7 DEF Handler, Accounts!Next
  <2>3. QED
    BY <2>1, <2>2
<1>8. QED
  BY <1>1, <1>2, <1>3, <1>4, <1>5, <1>6, <1>7 DEF PgNext

LEMMA PgInitInv == PgInit => PgInv /\ AccountsInv
<1>1. SUFFICES ASSUME PgInit PROVE PgInv
  BY AccountsInvInit DEF PgInit
<1>2. \A r \in Requests : stmt[r] = None
  BY <1>1 DEF PgInit
<1>3. QED
  BY <1>1, <1>2 DEF PgInit, PgInv, Stands, Apart

LEMMA PgInvariance == PgSpec => [](PgInv /\ AccountsInv)
<1>1. PgInv /\ AccountsInv /\ [PgNext]_pgVars => (PgInv /\ AccountsInv)'
  BY PgStep, AccountsInvStep
<1>2. QED
  BY <1>1, PgInitInv, PTL DEF PgSpec

(* PgTypeOK: the accounts, what is found through access_code, the sessions, *)
(* the requests and the statements in flight are as declared, and a          *)
(* statement in flight is one the handler's step makes.                      *)
THEOREM PgTypesCorrect == PgSpec => []PgTypeOK
<1>1. PgInv /\ AccountsInv => PgTypeOK
  <2>1. SUFFICES ASSUME PgInv, AccountsInv PROVE PgTypeOK
    OBVIOUS
  <2>2. ASSUME NEW r \in Requests, stmt[r] # None
        PROVE  CASE stmt[r].op = "insert"  -> req[r].pc = "create"
                 [] stmt[r].op = "update"  ->
                      req[r].pc \in {"flag", "name"} /\ stmt[r].id = req[r].target
                 [] stmt[r].op = "delete"  ->
                      req[r].pc = "delete" /\ stmt[r].id = req[r].target
                 [] stmt[r].op = "session" ->
                      req[r].pc = "session" /\ stmt[r].id = req[r].user
    <3>1. stmt[r].op \in {"insert", "update", "delete", "session"} /\ Stands(r)
      BY <2>1, <2>2, StatementAt DEF PgInv
    <3>2. QED
      BY <2>2, <3>1
      DEF Stands, InsertStands, UpdateStands, DeleteStands, SessionStands
  <2>3. QED
    BY <2>1, <2>2, AccountsInvMeans DEF PgTypeOK, PgInv
<1>2. QED
  BY <1>1, PgInvariance, PTL

(* PostgresStore's statements, committed in any order or not at all, come to *)
(* the critical sections of MemoryStore: no rename undoes a change of rights, *)
(* no code is given twice, no session is made for an account on its way out.  *)
THEOREM PgImplementsAccounts == PgSpec => ImplementsAccounts
<1>1. PgInit => Accounts!Init
  BY DEF PgInit
<1>2. PgInv /\ AccountsInv /\ [PgNext]_pgVars => [Accounts!Next]_Accounts!accountVars
  BY PgStep
<1>3. QED
  BY <1>1, <1>2, PgInvariance, PTL DEF PgSpec, ImplementsAccounts, Accounts!Spec

(* What holds of MemoryStore's index and sessions holds of the committed     *)
(* tables at any moment, while statements are open: a code is held by one     *)
(* account at most and no session outlives its account.                       *)
THEOREM PgAccountsCorrect ==
  PgSpec => [](Accounts!CodesFindTheirUser /\ Accounts!SessionsHaveUsers)
<1>1. AccountsInv => Accounts!CodesFindTheirUser /\ Accounts!SessionsHaveUsers
  BY AccountsInvMeans
<1>2. QED
  BY <1>1, PgInvariance, PTL

(* The action properties of module Accounts carry over as well.             *)
LEMMA PgFacts == PgSpec => Facts!Spec
<1>1. PgInit => Facts!Init
  BY AccountsInit DEF PgInit
<1>2. PgInv /\ AccountsInv /\ [PgNext]_pgVars => [Facts!Next]_Facts!accountVars
  BY PgStep, AccountsNext
<1>3. QED
  BY <1>1, <1>2, PgInvariance, PTL DEF PgSpec, Facts!Spec

(* Over Postgres, too, a login gets a session of the account whose code was  *)
(* presented, a refused token stays refused, only an actor who lost its      *)
(* rights can remove the last administrator, and a lock-out is final.        *)
THEOREM PgAccountsBehave ==
  PgSpec => /\ Facts!LoginHonoursCode
            /\ Facts!RefusedForGood
            /\ Facts!ActiveAdminNeverLast
            /\ Facts!LockOutIsFinal
<1>1. Facts!AccountsAssumption
  BY PgAccountsAssumption
  DEF Accounts!AccountsAssumption, Facts!AccountsAssumption,
      Accounts!Account, Facts!Account, Accounts!Session, Facts!Session
<1>2. /\ Facts!Spec => Facts!LoginHonoursCode
      /\ Facts!Spec => Facts!RefusedForGood
      /\ Facts!Spec => Facts!ActiveAdminNeverLast
      /\ Facts!Spec => Facts!LockOutIsFinal
  BY <1>1, Facts!LoginsHonourCodes, Facts!RefusalsAreFinal, Facts!ActorsStayAdmins,
     Facts!LockOutStays
<1>3. QED
  BY <1>2, PgFacts, PTL
=============================================================================
