--------------------------- MODULE AccountsProofs ---------------------------
(***************************************************************************)
(* Accounts, codes and sessions, for any number of accounts, codes, tokens *)
(* and overlapping requests.                                               *)
(***************************************************************************)
EXTENDS Accounts, TLAPS

(* A login goes on with an account that existed, and as long as that account *)
(* lives its code is the one the client presented.                           *)
LoginsStand ==
  \A r \in Requests : req[r].pc \in {"issue", "session"} =>
    /\ req[r].user \in issuedIds
    /\ users[req[r].user] # None => users[req[r].user].code = req[r].code

(* A request about to take rights, or an account, away from somebody.       *)
TakesAway(q) ==
  \/ q.pc \in {"count", "delete"}
  \/ q.pc = "flag" /\ ~q.admin

(* It never takes them away from the administrator it runs for.             *)
DemotionsSpareActor ==
  \A r \in Requests :
    /\ req[r].pc = "count" => ~req[r].admin
    /\ TakesAway(req[r]) => req[r].actor # req[r].target

IInv ==
  /\ TypeOK
  /\ CodesFindTheirUser
  /\ SessionsHaveUsers
  /\ LoginsStand
  /\ DemotionsSpareActor

(* A request holds the record of the point its handler has reached.        *)
LEMMA RequestAt ==
  ASSUME NEW q \in Request
  PROVE  /\ q.pc = "issue" => q \in [pc : {"issue"}, user : Ids, code : Codes]
         /\ q.pc = "session" =>
              q \in [pc : {"session"}, user : Ids, code : Codes, expires : Nat]
         /\ q.pc = "create" => q \in [pc : {"create"}, actor : Ids, name : Names]
         /\ q.pc \in {"count", "flag"} =>
              q \in [pc : {"count", "flag"}, actor : Ids, target : Ids,
                     admin : BOOLEAN, name : Names \cup {NoName}]
         /\ q.pc = "name" =>
              q \in [pc : {"name"}, actor : Ids, target : Ids, name : Names]
         /\ q.pc = "delete" => q \in [pc : {"delete"}, actor : Ids, target : Ids]
BY DEF Request, Idle

(* The accounts the migrations left behind satisfy the invariant.          *)
LEMMA InitIInv == Init => IInv
<1>1. SUFFICES ASSUME Init PROVE IInv
  OBVIOUS
<1>2. TypeOK
  BY <1>1, AccountsAssumption DEF Init, TypeOK, Request
<1>3. CodesFindTheirUser
  BY <1>1 DEF Init, CodesFindTheirUser
<1>4. SessionsHaveUsers /\ LoginsStand /\ DemotionsSpareActor
  BY <1>1 DEF Init, SessionsHaveUsers, LoginsStand, DemotionsSpareActor, TakesAway, Idle
<1>5. QED
  BY <1>2, <1>3, <1>4 DEF IInv

(* A step that moves one request on and leaves the tables and the clock alone *)
(* keeps the invariant, if what the request now holds is in order.           *)
LEMMA QuietStep ==
  ASSUME IInv, UNCHANGED <<storeVars, now>>,
         NEW r \in Requests, NEW held \in Request, Become(r, held),
         held.pc \in {"issue", "session"} =>
           /\ held.user \in issuedIds
           /\ users[held.user] # None => users[held.user].code = held.code,
         held.pc = "count" => ~held.admin,
         TakesAway(held) => held.actor # held.target
  PROVE  IInv'
<1>1. TypeOK'
  BY DEF IInv, TypeOK, Become, storeVars
<1>2. CodesFindTheirUser' /\ SessionsHaveUsers'
  BY DEF IInv, CodesFindTheirUser, SessionsHaveUsers, storeVars
<1>3. LoginsStand'
  BY DEF IInv, TypeOK, LoginsStand, Become, storeVars
<1>4. DemotionsSpareActor'
  BY DEF IInv, TypeOK, DemotionsSpareActor, TakesAway, Become, storeVars
<1>5. QED
  BY <1>1, <1>2, <1>3, <1>4 DEF IInv

(* A request that ends leaves nothing to be wrong about the others.        *)
LEMMA EndKeepsRequests ==
  ASSUME IInv, NEW r \in Requests, End(r)
  PROVE  /\ req' \in [Requests -> Request]
         /\ \A s \in Requests : req'[s] = req[s] \/ req'[s] = Idle
         /\ DemotionsSpareActor'
<1>1. Idle \in Request /\ Idle.pc = "idle"
  BY DEF Request, Idle
<1>2. req' \in [Requests -> Request]
  BY <1>1 DEF IInv, TypeOK, End, Become
<1>3. \A s \in Requests : req'[s] = req[s] \/ req'[s] = Idle
  BY DEF IInv, TypeOK, End, Become
<1>4. DemotionsSpareActor'
  BY <1>1, <1>3 DEF IInv, DemotionsSpareActor, TakesAway
<1>5. QED
  BY <1>2, <1>3, <1>4

LEMMA LoginIInv ==
  ASSUME IInv, NEW r \in Requests,
         \/ \E code \in Codes : FindUserByCode(r, code)
         \/ IssueSession(r)
  PROVE  IInv'
<1>1. ASSUME NEW code \in Codes, FindUserByCode(r, code) PROVE IInv'
  <2> DEFINE u == codeToID[code]
             held == [pc |-> "issue", user |-> u, code |-> code]
  <2>1. u \in Ids /\ users[u] # None /\ users[u].code = code
    BY <1>1 DEF FindUserByCode, IInv, TypeOK, CodesFindTheirUser
  <2>2. u \in issuedIds
    BY <2>1 DEF IInv, TypeOK
  <2>3. held \in Request
    BY <2>1 DEF Request
  <2> HIDE DEF u
  <2>4. held.pc = "issue" /\ held.user = u /\ held.code = code
    OBVIOUS
  <2>5. Become(r, held) /\ UNCHANGED <<storeVars, now>>
    BY <1>1 DEF FindUserByCode, u
  <2> HIDE DEF held
  <2> QED
    BY <2>1, <2>2, <2>3, <2>4, <2>5, QuietStep DEF TakesAway
<1>2. ASSUME IssueSession(r) PROVE IInv'
  <2> DEFINE held == [pc |-> "session", user |-> req[r].user, code |-> req[r].code,
                      expires |-> now + TTL]
  <2>1. req[r] \in [pc : {"issue"}, user : Ids, code : Codes]
    BY <1>2, RequestAt DEF IssueSession, IInv, TypeOK
  <2>2. now + TTL \in Nat
    BY AccountsAssumption DEF IInv, TypeOK
  <2>3. held \in Request
    BY <2>1, <2>2 DEF Request
  <2>4. held.pc = "session" /\ held.user = req[r].user /\ held.code = req[r].code
    OBVIOUS
  <2>5. Become(r, held) /\ UNCHANGED <<storeVars, now>>
    BY <1>2 DEF IssueSession
  <2>6. /\ held.user \in issuedIds
        /\ users[held.user] # None => users[held.user].code = held.code
    BY <1>2, <2>4 DEF IssueSession, IInv, LoginsStand
  <2> HIDE DEF held
  <2> QED
    BY <2>3, <2>4, <2>5, <2>6, QuietStep DEF TakesAway
<1>3. QED
  BY <1>1, <1>2

(* The administrator handlers start with what their guards establish.      *)
LEMMA AdminIInv ==
  ASSUME IInv, NEW r \in Requests, NEW actor \in Ids,
         \/ BeginCreate(r, actor)
         \/ \E target \in Ids :
              \/ BeginDemote(r, actor, target) \/ BeginPromote(r, actor, target)
              \/ BeginRename(r, actor, target) \/ BeginDelete(r, actor, target)
  PROVE  IInv'
<1>1. ASSUME NEW held \in Request, Admit(r, actor, held),
             held.pc \notin {"issue", "session"},
             held.pc = "count" => ~held.admin,
             TakesAway(held) => held.actor # held.target
      PROVE  IInv'
  BY <1>1, QuietStep DEF Admit
<1>2. ASSUME BeginCreate(r, actor) PROVE IInv'
  <2>1. \A name \in Names :
          [pc |-> "create", actor |-> actor, name |-> name] \in Request
    BY DEF Request
  <2> QED
    BY <1>1, <1>2, <2>1 DEF BeginCreate, TakesAway
<1>3. ASSUME NEW target \in Ids, BeginDemote(r, actor, target) PROVE IInv'
  <2>1. \A name \in Names \cup {NoName} :
          [pc |-> "count", actor |-> actor, target |-> target,
           admin |-> FALSE, name |-> name] \in Request
    BY DEF Request
  <2> QED
    BY <1>1, <1>3, <2>1 DEF BeginDemote, NotSelf, TakesAway
<1>4. ASSUME NEW target \in Ids, BeginPromote(r, actor, target) PROVE IInv'
  <2>1. \A name \in Names \cup {NoName} :
          [pc |-> "flag", actor |-> actor, target |-> target,
           admin |-> TRUE, name |-> name] \in Request
    BY DEF Request
  <2> QED
    BY <1>1, <1>4, <2>1 DEF BeginPromote, TakesAway
<1>5. ASSUME NEW target \in Ids, BeginRename(r, actor, target) PROVE IInv'
  <2>1. \A name \in Names :
          [pc |-> "name", actor |-> actor, target |-> target, name |-> name]
            \in Request
    BY DEF Request
  <2> QED
    BY <1>1, <1>5, <2>1 DEF BeginRename, TakesAway
<1>6. ASSUME NEW target \in Ids, BeginDelete(r, actor, target) PROVE IInv'
  <2>1. [pc |-> "delete", actor |-> actor, target |-> target] \in Request
    BY DEF Request
  <2> QED
    BY <1>1, <1>6, <2>1 DEF BeginDelete, NotSelf, TakesAway
<1>7. QED
  BY <1>2, <1>3, <1>4, <1>5, <1>6

LEMMA CreateSessionIInv ==
  ASSUME IInv, NEW r \in Requests, CreateSession(r)
  PROVE  IInv'
<1> USE DEF IInv
<1>1. req[r] \in [pc : {"session"}, user : Ids, code : Codes, expires : Nat]
  BY RequestAt DEF CreateSession, TypeOK
<1>2. PICK t \in Tokens \ minted :
        /\ sessions' = [sessions EXCEPT ![t] =
             [user |-> req[r].user, expires |-> req[r].expires]]
        /\ minted' = minted \cup {t}
  BY DEF CreateSession
<1>3. UNCHANGED <<users, issuedIds, codeToID, now>> /\ users[req[r].user] # None
  BY DEF CreateSession, SessionUser
<1>4. /\ req' \in [Requests -> Request]
      /\ \A s \in Requests : req'[s] = req[s] \/ req'[s] = Idle
      /\ DemotionsSpareActor'
  BY EndKeepsRequests DEF CreateSession
<1>5. [user |-> req[r].user, expires |-> req[r].expires] \in Session
  BY <1>1 DEF Session
<1>6. TypeOK'
  BY <1>2, <1>3, <1>4, <1>5 DEF TypeOK
<1>7. CodesFindTheirUser'
  BY <1>3 DEF CodesFindTheirUser
<1>8. SessionsHaveUsers'
  BY <1>2, <1>3, <1>5 DEF SessionsHaveUsers, TypeOK
<1>9. LoginsStand'
  BY <1>3, <1>4 DEF LoginsStand, Idle
<1>10. QED
  BY <1>4, <1>6, <1>7, <1>8, <1>9

(* A new account takes an id and a code nobody has.                        *)
LEMMA CreateUserIInv ==
  ASSUME IInv, NEW r \in Requests, CreateManagedUser(r)
  PROVE  IInv'
<1> USE DEF IInv
<1>1. req[r] \in [pc : {"create"}, actor : Ids, name : Names]
  BY RequestAt DEF CreateManagedUser, TypeOK
<1>2. PICK id \in Ids, code \in Codes :
        /\ id \notin issuedIds
        /\ codeToID[code] = None
        /\ users' = [users EXCEPT ![id] =
             [name |-> req[r].name, code |-> code, admin |-> FALSE]]
        /\ codeToID' = [codeToID EXCEPT ![code] = id]
        /\ issuedIds' = issuedIds \cup {id}
  BY DEF CreateManagedUser, Fresh, Issued
<1>3. UNCHANGED <<sessions, minted, now>> /\ users[id] = None
  BY <1>2 DEF CreateManagedUser, TypeOK
<1>4. /\ req' \in [Requests -> Request]
      /\ \A s \in Requests : req'[s] = req[s] \/ req'[s] = Idle
      /\ DemotionsSpareActor'
  BY EndKeepsRequests DEF CreateManagedUser
<1> DEFINE a == [name |-> req[r].name, code |-> code, admin |-> FALSE]
<1>5. a \in Account /\ a.code = code
  BY <1>1 DEF Account
<1>6. users' = [users EXCEPT ![id] = a]
  BY <1>2
<1> HIDE DEF a
<1>7. TypeOK'
  <2>1. users' \in [Ids -> Account \cup {None}] /\ issuedIds' \in SUBSET Ids
    BY <1>2, <1>5, <1>6 DEF TypeOK
  <2>2. \A i \in Ids \ issuedIds' : users'[i] = None
    BY <1>2, <1>6 DEF TypeOK
  <2>3. codeToID' \in [Codes -> Ids \cup {None}]
    BY <1>2 DEF TypeOK
  <2>4. QED
    BY <1>3, <1>4, <2>1, <2>2, <2>3 DEF TypeOK
<1>8. CodesFindTheirUser'
  <2>1. SUFFICES ASSUME NEW c \in Codes, NEW i \in Ids
                 PROVE  codeToID'[c] = i <=> users'[i] # None /\ users'[i].code = c
    BY DEF CodesFindTheirUser
  <2>2. a # None
    BY <1>5, AccountsAssumption
  <2>3. users'[i] = (IF i = id THEN a ELSE users[i])
    BY <1>6 DEF TypeOK
  <2>4. codeToID'[c] = (IF c = code THEN id ELSE codeToID[c])
    BY <1>2 DEF TypeOK
  <2>5. codeToID[c] = i <=> users[i] # None /\ users[i].code = c
    BY DEF CodesFindTheirUser
  <2>6. users[i] # None => users[i].code # code
    BY <1>2, AccountsAssumption DEF CodesFindTheirUser
  <2>7. QED
    BY <1>3, <1>5, <2>2, <2>3, <2>4, <2>5, <2>6
<1>9. SessionsHaveUsers'
  BY <1>3, <1>5, <1>6 DEF SessionsHaveUsers, TypeOK
<1>10. LoginsStand'
  BY <1>2, <1>4, <1>6 DEF LoginsStand, Idle, TypeOK
<1>11. QED
  BY <1>4, <1>7, <1>8, <1>9, <1>10

(* Changing an account's name or rights leaves its id and its code alone.   *)
LEMMA EditKeepsIndex ==
  ASSUME IInv, NEW id \in Ids, users[id] # None,
         NEW a \in Account, a.code = users[id].code,
         users' = [users EXCEPT ![id] = a],
         UNCHANGED <<issuedIds, codeToID, sessions, minted, now>>,
         req' \in [Requests -> Request],
         \A s \in Requests : req'[s].pc \in {"issue", "session"} => req'[s] = req[s]
  PROVE  TypeOK' /\ CodesFindTheirUser' /\ SessionsHaveUsers' /\ LoginsStand'
<1> USE DEF IInv
<1>1. a # None
  BY AccountsAssumption
<1>2. TypeOK'
  BY DEF TypeOK
<1>3. CodesFindTheirUser'
  BY <1>1 DEF CodesFindTheirUser, TypeOK
<1>4. SessionsHaveUsers'
  BY <1>1 DEF SessionsHaveUsers, TypeOK
<1>5. LoginsStand'
  BY <1>1 DEF LoginsStand, TypeOK
<1>6. QED
  BY <1>2, <1>3, <1>4, <1>5

LEMMA UpdateAdminIInv ==
  ASSUME IInv, NEW r \in Requests, UpdateUserAdmin(r)
  PROVE  IInv'
<1> DEFINE id == req[r].target
           a  == [users[id] EXCEPT !.admin = req[r].admin]
<1>1. req[r] \in [pc : {"count", "flag"}, actor : Ids, target : Ids,
                  admin : BOOLEAN, name : Names \cup {NoName}]
  BY RequestAt DEF UpdateUserAdmin, IInv, TypeOK
<1>2. id \in Ids /\ users[id] # None /\ users[id] \in Account
  BY <1>1 DEF UpdateUserAdmin, IInv, TypeOK
<1>3. a \in Account /\ a.code = users[id].code
  BY <1>1, <1>2 DEF Account
<1>4. users' = [users EXCEPT ![id] = a]
  BY <1>2 DEF UpdateUserAdmin
<1>5. /\ req' \in [Requests -> Request]
      /\ \A s \in Requests : \/ req'[s] = req[s]
                             \/ req'[s].pc \in {"idle", "name"}
  <2>1. CASE req[r].name = NoName
    BY <2>1, EndKeepsRequests DEF UpdateUserAdmin, Idle
  <2>2. CASE req[r].name # NoName
    <3>1. [pc |-> "name", actor |-> req[r].actor, target |-> req[r].target,
           name |-> req[r].name] \in Request
      BY <1>1, <2>2 DEF Request
    <3>2. QED
      BY <2>2, <3>1 DEF UpdateUserAdmin, Become, IInv, TypeOK
  <2>3. QED
    BY <2>1, <2>2
<1>6. DemotionsSpareActor'
  BY <1>5 DEF IInv, DemotionsSpareActor, TakesAway
<1>7. UNCHANGED <<issuedIds, codeToID, sessions, minted, now>>
  BY DEF UpdateUserAdmin
<1> HIDE DEF id, a
<1>8. QED
  BY <1>2, <1>3, <1>4, <1>5, <1>6, <1>7, EditKeepsIndex DEF IInv

LEMMA UpdateNameIInv ==
  ASSUME IInv, NEW r \in Requests, UpdateUserName(r)
  PROVE  IInv'
<1> DEFINE id == req[r].target
           a  == [users[id] EXCEPT !.name = req[r].name]
<1>1. req[r] \in [pc : {"name"}, actor : Ids, target : Ids, name : Names]
  BY RequestAt DEF UpdateUserName, IInv, TypeOK
<1>2. id \in Ids /\ users[id] # None /\ users[id] \in Account
  BY <1>1 DEF UpdateUserName, IInv, TypeOK
<1>3. a \in Account /\ a.code = users[id].code
  BY <1>1, <1>2 DEF Account
<1>4. users' = [users EXCEPT ![id] = a]
  BY <1>2 DEF UpdateUserName
<1>5. /\ req' \in [Requests -> Request]
      /\ \A s \in Requests : req'[s] = req[s] \/ req'[s] = Idle
      /\ DemotionsSpareActor'
  BY EndKeepsRequests DEF UpdateUserName
<1>6. Idle.pc = "idle"
  BY DEF Idle
<1>7. UNCHANGED <<issuedIds, codeToID, sessions, minted, now>>
  BY DEF UpdateUserName
<1> HIDE DEF id, a
<1>8. QED
  BY <1>2, <1>3, <1>4, <1>5, <1>6, <1>7, EditKeepsIndex DEF IInv

(* The account, its code and its sessions go together.                     *)
LEMMA DeleteIInv ==
  ASSUME IInv, NEW r \in Requests, DeleteUser(r)
  PROVE  IInv'
<1> USE DEF IInv
<1> DEFINE id == req[r].target
<1>1. req[r] \in [pc : {"delete"}, actor : Ids, target : Ids]
  BY RequestAt DEF DeleteUser, TypeOK
<1>2. /\ id \in Ids /\ users[id] # None /\ users[id] \in Account
      /\ users[id].code \in Codes
  BY <1>1 DEF DeleteUser, TypeOK, Account
<1>3. /\ codeToID' = [codeToID EXCEPT ![users[id].code] = None]
      /\ sessions' = [t \in Tokens |-> IF sessions[t] # None /\ sessions[t].user = id
                                       THEN None ELSE sessions[t]]
      /\ users' = [users EXCEPT ![id] = None]
      /\ UNCHANGED <<issuedIds, minted, now>>
  BY DEF DeleteUser, IndexWithout, SessionsWithout
<1>4. /\ req' \in [Requests -> Request]
      /\ \A s \in Requests : req'[s] = req[s] \/ req'[s] = Idle
      /\ DemotionsSpareActor'
  BY EndKeepsRequests DEF DeleteUser
<1> HIDE DEF id
<1>5. TypeOK'
  <2>1. users' \in [Ids -> Account \cup {None}] /\ issuedIds' \in SUBSET Ids
    BY <1>3 DEF TypeOK
  <2>2. \A i \in Ids \ issuedIds' : users'[i] = None
    BY <1>2, <1>3 DEF TypeOK
  <2>3. codeToID' \in [Codes -> Ids \cup {None}]
    BY <1>3 DEF TypeOK
  <2>4. sessions' \in [Tokens -> Session \cup {None}]
    BY <1>3 DEF TypeOK
  <2>5. \A t \in Tokens \ minted' : sessions'[t] = None
    BY <1>3 DEF TypeOK
  <2>6. QED
    BY <1>3, <1>4, <2>1, <2>2, <2>3, <2>4, <2>5 DEF TypeOK
<1>6. CodesFindTheirUser'
  <2>1. SUFFICES ASSUME NEW c \in Codes, NEW i \in Ids
                 PROVE  codeToID'[c] = i <=> users'[i] # None /\ users'[i].code = c
    BY DEF CodesFindTheirUser
  <2>2. users'[i] = (IF i = id THEN None ELSE users[i])
    BY <1>3 DEF TypeOK
  <2>3. codeToID'[c] = (IF c = users[id].code THEN None ELSE codeToID[c])
    BY <1>3 DEF TypeOK
  <2>4. codeToID[c] = i <=> users[i] # None /\ users[i].code = c
    BY DEF CodesFindTheirUser
  <2>5. codeToID[users[id].code] = id
    BY <1>2 DEF CodesFindTheirUser
  <2>6. i # None
    BY AccountsAssumption
  <2>7. QED
    BY <1>2, <2>2, <2>3, <2>4, <2>5, <2>6
<1>7. SessionsHaveUsers'
  <2>1. SUFFICES ASSUME NEW t \in Tokens, sessions'[t] # None
                 PROVE  users'[sessions'[t].user] # None
    BY DEF SessionsHaveUsers
  <2>2. /\ sessions'[t] = sessions[t]
        /\ sessions[t] # None
        /\ sessions[t].user # id
    BY <1>3, <2>1
  <2>3. sessions[t].user \in Ids
    BY <2>2 DEF TypeOK, Session
  <2>4. QED
    BY <1>3, <2>2, <2>3 DEF SessionsHaveUsers, TypeOK
<1>8. LoginsStand'
  BY <1>3, <1>4 DEF LoginsStand, TypeOK, Idle
<1>9. QED
  BY <1>4, <1>5, <1>6, <1>7, <1>8

LEMMA CountIInv ==
  ASSUME IInv, NEW r \in Requests, CountAdmins(r)
  PROVE  IInv'
<1> DEFINE held == [req[r] EXCEPT !.pc = "flag"]
<1>1. req[r] \in [pc : {"count", "flag"}, actor : Ids, target : Ids,
                  admin : BOOLEAN, name : Names \cup {NoName}]
  BY RequestAt DEF CountAdmins, IInv, TypeOK
<1>2. held \in Request /\ held.pc = "flag"
  BY <1>1 DEF Request
<1>3. held.actor # held.target
  <2>1. req[r].actor # req[r].target
    BY DEF CountAdmins, IInv, DemotionsSpareActor, TakesAway
  <2>2. QED
    BY <1>1, <2>1
<1>4. Become(r, held) /\ UNCHANGED <<storeVars, now>>
  BY DEF CountAdmins, Become
<1> HIDE DEF held
<1>5. QED
  BY <1>2, <1>3, <1>4, QuietStep

LEMMA FailIInv ==
  ASSUME IInv, NEW r \in Requests, FailRequest(r)
  PROVE  IInv'
BY QuietStep DEF FailRequest, End, Request, Idle, TakesAway

LEMMA TickIInv ==
  ASSUME IInv, Tick
  PROVE  IInv'
<1>1. TypeOK'
  BY AccountsAssumption DEF IInv, TypeOK, Tick, storeVars
<1>2. CodesFindTheirUser' /\ SessionsHaveUsers'
  BY DEF IInv, CodesFindTheirUser, SessionsHaveUsers, Tick, storeVars
<1>3. LoginsStand' /\ DemotionsSpareActor'
  BY DEF IInv, LoginsStand, DemotionsSpareActor, TakesAway, Tick, storeVars
<1>4. QED
  BY <1>1, <1>2, <1>3 DEF IInv

(* No step of a request, and no tick of the clock, breaks the invariant.    *)
LEMMA NextIInv == IInv /\ [Next]_accountVars => IInv'
<1>1. SUFFICES ASSUME IInv, [Next]_accountVars PROVE IInv'
  OBVIOUS
<1>2. CASE UNCHANGED accountVars
  BY <1>1, <1>2
  DEF IInv, TypeOK, CodesFindTheirUser, SessionsHaveUsers, LoginsStand,
      DemotionsSpareActor, accountVars, storeVars
<1>3. CASE Next
  BY <1>1, <1>3, LoginIInv, AdminIInv, CreateSessionIInv, CreateUserIInv,
     UpdateAdminIInv, UpdateNameIInv, DeleteIInv, CountIInv, FailIInv, TickIInv
  DEF Next
<1>4. QED
  BY <1>1, <1>2, <1>3

LEMMA Invariance == Spec => []IInv
BY InitIInv, NextIInv, PTL DEF Spec

(* Accounts, codes, sessions and requests stay of their kinds, and nothing  *)
(* exists under an id or a token that was never handed out.                 *)
THEOREM TypeCorrect == Spec => []TypeOK
BY Invariance, PTL DEF IInv

(* FindUserByCode: a code logs in the one account that has it, and nobody   *)
(* once that account is deleted.                                            *)
THEOREM CodesAreExact == Spec => []CodesFindTheirUser
BY Invariance, PTL DEF IInv

(* No interleaving of a login with the deletion of its account leaves a     *)
(* session behind.                                                          *)
THEOREM NoOrphanSessions == Spec => []SessionsHaveUsers
BY Invariance, PTL DEF IInv

-----------------------------------------------------------------------------
(* The steps that write a table; every other one, but a tick of the clock,  *)
(* only moves a request on.                                                 *)
Writes(r) ==
  \/ CreateSession(r) \/ CreateManagedUser(r)
  \/ UpdateUserAdmin(r) \/ UpdateUserName(r) \/ DeleteUser(r)

LEMMA StepKinds ==
  ASSUME [Next]_accountVars
  PROVE  \/ \E r \in Requests : Writes(r)
         \/ Tick
         \/ UNCHANGED <<storeVars, now>>
<1>1. ASSUME NEW r \in Requests, NEW code \in Codes, FindUserByCode(r, code)
      PROVE  UNCHANGED <<storeVars, now>>
  BY <1>1 DEF FindUserByCode
<1>2. ASSUME NEW r \in Requests, IssueSession(r) \/ CountAdmins(r) \/ FailRequest(r)
      PROVE  UNCHANGED <<storeVars, now>>
  BY <1>2 DEF IssueSession, CountAdmins, FailRequest
<1>3. ASSUME NEW r \in Requests, NEW actor \in Ids,
             \/ BeginCreate(r, actor)
             \/ \E target \in Ids :
                  \/ BeginDemote(r, actor, target) \/ BeginPromote(r, actor, target)
                  \/ BeginRename(r, actor, target) \/ BeginDelete(r, actor, target)
      PROVE  UNCHANGED <<storeVars, now>>
  BY <1>3 DEF BeginCreate, BeginDemote, BeginPromote, BeginRename, BeginDelete, Admit
<1>4. CASE UNCHANGED accountVars
  BY <1>4 DEF accountVars
<1>5. CASE Next
  BY <1>1, <1>2, <1>3, <1>5 DEF Next, Writes
<1>6. QED
  BY <1>4, <1>5

(* The only step that gives a token a session is the end of a login.        *)
LEMMA NewSession ==
  ASSUME IInv, [Next]_accountVars, NEW t \in Tokens,
         sessions[t] = None, sessions'[t] # None
  PROVE  \E r \in Requests : CreateSession(r) /\ sessions'[t].user = req[r].user
<1>1. PICK r \in Requests : CreateSession(r) \/ DeleteUser(r)
  BY StepKinds
  DEF Writes, CreateManagedUser, UpdateUserAdmin, UpdateUserName, Tick, storeVars
<1>2. ~DeleteUser(r)
  BY DEF DeleteUser, SessionsWithout
<1>3. PICK u \in Tokens \ minted : sessions' = [sessions EXCEPT ![u] =
             [user |-> req[r].user, expires |-> req[r].expires]]
  BY <1>1, <1>2 DEF CreateSession
<1>4. t = u
  BY <1>3
<1>5. sessions'[t] = [user |-> req[r].user, expires |-> req[r].expires]
  BY <1>3, <1>4 DEF IInv, TypeOK
<1>6. QED
  BY <1>1, <1>2, <1>5

(* A login gives its session to the account whose code was presented: in    *)
(* between, that account can be deleted, but neither its id nor its code    *)
(* can come to stand for another.                                           *)
THEOREM LoginsHonourCodes == Spec => LoginHonoursCode
<1>1. IInv /\ [Next]_accountVars
        => [\A t \in Tokens : sessions[t] = None /\ sessions'[t] # None =>
              \E r \in Requests :
                /\ req[r].pc = "session" /\ req'[r] = Idle
                /\ users[sessions'[t].user].code = req[r].code]_accountVars
  <2>1. SUFFICES ASSUME IInv, [Next]_accountVars, NEW t \in Tokens,
                        sessions[t] = None, sessions'[t] # None
                 PROVE  \E r \in Requests :
                          /\ req[r].pc = "session" /\ req'[r] = Idle
                          /\ users[sessions'[t].user].code = req[r].code
    OBVIOUS
  <2>2. PICK r \in Requests : CreateSession(r) /\ sessions'[t].user = req[r].user
    BY <2>1, NewSession
  <2>3. req[r].pc = "session" /\ users[req[r].user] # None
    BY <2>2 DEF CreateSession, SessionUser
  <2>4. req'[r] = Idle
    BY <2>1, <2>2 DEF CreateSession, End, Become, IInv, TypeOK
  <2>5. users[req[r].user].code = req[r].code
    BY <2>1, <2>3 DEF IInv, LoginsStand
  <2>6. QED
    BY <2>2, <2>3, <2>4, <2>5
<1>2. QED
  BY <1>1, Invariance, PTL DEF Spec, LoginHonoursCode

(* The clock only moves on, and a session is only ever made, kept as it is   *)
(* or removed.                                                              *)
LEMMA SessionsOnlyAge ==
  ASSUME IInv, [Next]_accountVars, NEW t \in minted, sessions'[t] # None
  PROVE  sessions'[t] = sessions[t] /\ now <= now'
<1>1. now' = now \/ now' = now + 1
  BY StepKinds
  DEF Writes, CreateSession, CreateManagedUser, UpdateUserAdmin, UpdateUserName,
      DeleteUser, Tick
<1>2. now \in Nat
  BY AccountsAssumption DEF IInv, TypeOK
<1>3. ASSUME NEW r \in Requests, CreateSession(r)
      PROVE  sessions'[t] = sessions[t]
  BY <1>3 DEF CreateSession, IInv, TypeOK
<1>4. ASSUME NEW r \in Requests, DeleteUser(r)
      PROVE  sessions'[t] = sessions[t]
  BY <1>4 DEF DeleteUser, SessionsWithout, IInv, TypeOK
<1>5. sessions'[t] = sessions[t]
  BY <1>3, <1>4, StepKinds
  DEF Writes, CreateManagedUser, UpdateUserAdmin, UpdateUserName, Tick, storeVars
<1>6. QED
  BY <1>1, <1>2, <1>5

(* A token once refused is refused for ever: nothing renews an expired       *)
(* session, reissues its token, or brings a deleted account back.           *)
THEOREM RefusalsAreFinal == Spec => RefusedForGood
<1>1. IInv /\ [Next]_accountVars
        => [\A t \in minted : ~Accepts(t) => ~Accepts(t)']_accountVars
  <2>1. SUFFICES ASSUME IInv, [Next]_accountVars, NEW t \in minted, Accepts(t)'
                 PROVE  Accepts(t)
    OBVIOUS
  <2>2. sessions'[t] # None /\ sessions'[t].expires > now'
    BY <2>1 DEF Accepts, Alive
  <2>3. sessions[t] = sessions'[t] /\ now <= now'
    BY <2>1, <2>2, SessionsOnlyAge
  <2>4. t \in Tokens /\ now \in Nat /\ sessions[t].expires \in Nat
    BY <2>1, <2>2, <2>3 DEF IInv, TypeOK, Session
  <2>5. now' \in Nat
    BY <2>1, NextIInv DEF IInv, TypeOK
  <2>6. sessions[t].expires > now
    BY <2>2, <2>3, <2>4, <2>5
  <2>7. users[sessions[t].user] # None
    BY <2>1, <2>2, <2>3, <2>4 DEF IInv, SessionsHaveUsers
  <2>8. QED
    BY <2>2, <2>3, <2>6, <2>7 DEF Accepts, Alive
<1>2. QED
  BY <1>1, Invariance, PTL DEF Spec, RefusedForGood

-----------------------------------------------------------------------------
(* A step that writes is a step of one request.                             *)
LEMMA OneRequestMoves ==
  ASSUME IInv, NEW s \in Requests, Writes(s), NEW r \in Requests, r # s
  PROVE  req'[r] = req[r]
BY DEF Writes, CreateSession, CreateManagedUser, UpdateUserAdmin, UpdateUserName,
       DeleteUser, End, Become, IInv, TypeOK

(* Whoever is an administrator when its own request takes rights or an       *)
(* account away still is one afterwards: only requests of actors who have    *)
(* lost their rights meanwhile can leave the system without administrators.  *)
THEOREM ActorsStayAdmins == Spec => ActiveAdminNeverLast
<1>1. IInv /\ [Next]_accountVars
        => [\A r \in Requests :
              req'[r] # req[r] /\ req[r].pc \in {"flag", "delete"} /\ IsAdmin(req[r].actor)
                => Admins' # {}]_accountVars
  <2>1. SUFFICES ASSUME IInv, [Next]_accountVars, NEW r \in Requests,
                        req'[r] # req[r], req[r].pc \in {"flag", "delete"},
                        IsAdmin(req[r].actor)
                 PROVE  Admins' # {}
    OBVIOUS
  <2> DEFINE actor == req[r].actor
  <2>2. /\ actor \in Ids /\ req[r].target \in Ids
        /\ req[r].pc = "flag" => req[r].admin \in BOOLEAN
    BY <2>1, RequestAt DEF IInv, TypeOK
  <2>3. CASE UNCHANGED users
    BY <2>1, <2>2, <2>3 DEF Admins, IsAdmin
  <2>4. CASE UpdateUserAdmin(r) /\ req[r].admin
    <3>1. users'[req[r].target] = [users[req[r].target] EXCEPT !.admin = req[r].admin]
      BY <2>1, <2>2, <2>4 DEF UpdateUserAdmin, IInv, TypeOK
    <3>2. users[req[r].target] \in Account
      BY <2>1, <2>2, <2>4 DEF UpdateUserAdmin, IInv, TypeOK
    <3>3. req[r].admin \in BOOLEAN
      BY <2>2, <2>4 DEF UpdateUserAdmin
    <3>4. users'[req[r].target] \in Account
      BY <3>1, <3>2, <3>3 DEF Account
    <3>5. users'[req[r].target].admin = req[r].admin
      BY <3>1, <3>2 DEF Account
    <3>6. QED
      BY <2>2, <2>4, <3>4, <3>5, AccountsAssumption DEF Admins, IsAdmin
  <2>5. CASE UpdateUserAdmin(r) /\ ~req[r].admin
    <3>1. actor # req[r].target
      BY <2>1, <2>5 DEF UpdateUserAdmin, IInv, DemotionsSpareActor, TakesAway
    <3>2. users'[actor] = users[actor]
      BY <2>1, <2>2, <2>5, <3>1 DEF UpdateUserAdmin, IInv, TypeOK
    <3>3. QED
      BY <2>1, <2>2, <3>2 DEF Admins, IsAdmin
  <2>6. CASE DeleteUser(r)
    <3>1. actor # req[r].target
      BY <2>1, <2>6 DEF DeleteUser, IInv, DemotionsSpareActor, TakesAway
    <3>2. users'[actor] = users[actor]
      BY <2>1, <2>2, <2>6, <3>1 DEF DeleteUser, IInv, TypeOK
    <3>3. QED
      BY <2>1, <2>2, <3>2 DEF Admins, IsAdmin
  <2>7. UNCHANGED users \/ UpdateUserAdmin(r) \/ DeleteUser(r)
    <3>1. CASE \E s \in Requests : Writes(s)
      <4>1. Writes(r)
        BY <2>1, <3>1, OneRequestMoves
      <4>2. QED
        BY <2>1, <4>1 DEF Writes, CreateSession, CreateManagedUser, UpdateUserName
    <3>2. CASE Tick \/ UNCHANGED <<storeVars, now>>
      BY <3>2 DEF Tick, storeVars
    <3>3. QED
      BY <2>1, <3>1, <3>2, StepKinds
  <2>8. QED
    BY <2>3, <2>4, <2>5, <2>6, <2>7
<1>2. QED
  BY <1>1, Invariance, PTL DEF Spec, ActiveAdminNeverLast

(* Without administrators no request of one begins, and no count succeeds.   *)
LEMMA NoAdminNoGrant ==
  ASSUME IInv, LockedOut, [Next]_accountVars,
         NEW r \in Requests, req'[r].pc = "flag"
  PROVE  ~req'[r].admin
<1>1. SUFFICES ASSUME req'[r] # req[r] PROVE FALSE
  BY DEF LockedOut
<1> USE DEF IInv, TypeOK
<1>2. ASSUME NEW s \in Requests, NEW actor \in Ids, NEW held, Admit(s, actor, held)
      PROVE  FALSE
  BY <1>2 DEF Admit, Entitled, LockedOut, Admins
<1>3. ASSUME NEW s \in Requests, NEW actor \in Ids,
             \/ BeginCreate(s, actor)
             \/ \E target \in Ids :
                  \/ BeginDemote(s, actor, target) \/ BeginPromote(s, actor, target)
                  \/ BeginRename(s, actor, target) \/ BeginDelete(s, actor, target)
      PROVE  FALSE
  BY <1>2, <1>3 DEF BeginCreate, BeginDemote, BeginPromote, BeginRename, BeginDelete
<1>4. ASSUME NEW s \in Requests, CountAdmins(s) PROVE FALSE
  BY <1>4 DEF CountAdmins, LockedOut
<1>5. ASSUME NEW s \in Requests, \E code \in Codes : FindUserByCode(s, code)
      PROVE  FALSE
  BY <1>1, <1>5 DEF FindUserByCode, Become
<1>6. ASSUME NEW s \in Requests, IssueSession(s)
      PROVE  FALSE
  BY <1>1, <1>6 DEF IssueSession, Become
<1>7. ASSUME NEW s \in Requests, FailRequest(s) \/ Writes(s)
      PROVE  FALSE
  BY <1>1, <1>7 DEF FailRequest, Writes, CreateSession, CreateManagedUser,
       UpdateUserAdmin, UpdateUserName, DeleteUser, End, Become, Idle
<1>8. ~Tick /\ ~UNCHANGED accountVars
  BY <1>1 DEF Tick, accountVars
<1>9. QED
  BY <1>3, <1>4, <1>5, <1>6, <1>7, <1>8 DEF Next, Writes

(* Without administrators, and without a promotion under way, no request     *)
(* that was begun earlier makes one.                                        *)
THEOREM LockOutStays == Spec => LockOutIsFinal
<1>1. IInv /\ [Next]_accountVars => [LockedOut => LockedOut']_accountVars
  <2>1. SUFFICES ASSUME IInv, [Next]_accountVars, LockedOut PROVE LockedOut'
    OBVIOUS
  <2>2. \A r \in Requests : req'[r].pc = "flag" => ~req'[r].admin
    BY <2>1, NoAdminNoGrant
  <2>3. SUFFICES ASSUME NEW id \in Ids PROVE ~IsAdmin(id)'
    BY <2>2 DEF LockedOut, Admins
  <2>4. ~IsAdmin(id)
    BY <2>1 DEF LockedOut, Admins
  <2>5. ASSUME NEW r \in Requests, UpdateUserAdmin(r) PROVE ~IsAdmin(id)'
    <3>1. ~req[r].admin
      BY <2>1, <2>5 DEF UpdateUserAdmin, LockedOut
    <3>2. req[r].target \in Ids
      BY <2>1, <2>5, RequestAt DEF UpdateUserAdmin, IInv, TypeOK
    <3>3. users[req[r].target] \in Account
      BY <2>1, <2>5, <3>2 DEF UpdateUserAdmin, IInv, TypeOK
    <3>4. id = req[r].target => ~users'[id].admin
      BY <2>1, <2>5, <3>1, <3>2, <3>3 DEF UpdateUserAdmin, IInv, TypeOK, Account
    <3>5. id # req[r].target => users'[id] = users[id]
      BY <2>1, <2>5, <3>2 DEF UpdateUserAdmin, IInv, TypeOK
    <3>6. QED
      BY <2>4, <3>4, <3>5 DEF IsAdmin
  <2>6. ASSUME NEW r \in Requests, UpdateUserName(r) PROVE ~IsAdmin(id)'
    <3>1. req[r].target \in Ids /\ users[req[r].target] \in Account
      BY <2>1, <2>6, RequestAt DEF UpdateUserName, IInv, TypeOK
    <3>2. id = req[r].target => users'[id].admin = users[id].admin
      BY <2>1, <2>6, <3>1 DEF UpdateUserName, IInv, TypeOK, Account
    <3>3. id # req[r].target => users'[id] = users[id]
      BY <2>1, <2>6, <3>1 DEF UpdateUserName, IInv, TypeOK
    <3>4. QED
      BY <2>4, <2>6, <3>2, <3>3 DEF IsAdmin, UpdateUserName
  <2>7. ASSUME NEW r \in Requests, CreateManagedUser(r) \/ DeleteUser(r)
        PROVE  ~IsAdmin(id)'
    BY <2>1, <2>4, <2>7 DEF CreateManagedUser, DeleteUser, IsAdmin, IInv, TypeOK
  <2>8. CASE UNCHANGED users
    BY <2>4, <2>8 DEF IsAdmin
  <2>9. QED
    BY <2>1, <2>5, <2>6, <2>7, <2>8, StepKinds DEF Writes, CreateSession, Tick, storeVars
<1>2. QED
  BY <1>1, Invariance, PTL DEF Spec, LockOutIsFinal
=============================================================================
