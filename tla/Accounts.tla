------------------------------ MODULE Accounts ------------------------------
(***************************************************************************)
(* Accounts, access codes, administrator rights and login sessions: the    *)
(* user half of the Store interface as MemoryStore implements it (each     *)
(* call one critical section), under the login handler and the             *)
(* administrator handlers of internal/app/server.go.  A handler makes      *)
(* several store calls and nothing holds a lock across them.               *)
(*                                                                         *)
(* PostgresStore runs one statement per call: the UNIQUE access_code plays *)
(* the part of codeToID, and the foreign key of sessions the part of the   *)
(* user check in CreateSession.                                            *)
(***************************************************************************)
EXTENDS Integers

CONSTANTS
  Ids,            \* user ids
  Codes,          \* access codes
  Names,          \* display names
  NoName,         \* an empty name: leave the name alone
  Tokens,         \* bearer tokens
  Requests,       \* login and administrator requests in flight
  Seed,           \* the accounts the migrations left behind
  None,           \* no account or session
  TTL, MaxTime    \* session lifetime (cfg.SessionTTL), bound of the clock

VARIABLES
  users,          \* account under each id, or None
  issuedIds,      \* ids handed out so far
  codeToID,       \* id each access code logs in, or None
  sessions,       \* session under each token, or None
  minted,         \* tokens handed out so far
  now,            \* the clock of the server
  req             \* what each in-flight request has read so far

storeVars == <<users, issuedIds, codeToID, sessions, minted>>
accountVars == <<storeVars, now, req>>

Account == [name : Names, code : Codes, admin : BOOLEAN]
Session == [user : Ids, expires : Nat]

IsAdmin(id) == users[id] # None /\ users[id].admin
Admins == {id \in Ids : IsAdmin(id)}

ASSUME AccountsAssumption ==
  /\ TTL \in Nat /\ MaxTime \in Nat
  /\ NoName \notin Names
  /\ None \notin Account /\ None \notin Ids /\ None \notin Session
  /\ Seed \in [Ids -> Account \cup {None}]
  /\ \E id \in Ids : Seed[id] # None /\ Seed[id].admin
  /\ \A i, j \in Ids : Seed[i] # None /\ Seed[j] # None /\ Seed[i].code = Seed[j].code
                         => i = j

Idle == [pc |-> "idle"]
Request ==
       {Idle}
  \cup [pc : {"issue"}, user : Ids, code : Codes]
  \cup [pc : {"session"}, user : Ids, code : Codes, expires : Nat]
  \cup [pc : {"create"}, actor : Ids, name : Names]
  \cup [pc : {"count", "flag"}, actor : Ids, target : Ids, admin : BOOLEAN,
        name : Names \cup {NoName}]
  \cup [pc : {"name"}, actor : Ids, target : Ids, name : Names]
  \cup [pc : {"delete"}, actor : Ids, target : Ids]

Init ==
  /\ users = Seed
  /\ issuedIds = {id \in Ids : Seed[id] # None}
  /\ codeToID \in [Codes -> Ids \cup {None}]
  /\ \A c \in Codes, id \in Ids :
       codeToID[c] = id <=> Seed[id] # None /\ Seed[id].code = c
  /\ sessions = [t \in Tokens |-> None]
  /\ minted = {}
  /\ now = 0
  /\ req = [r \in Requests |-> Idle]

Become(r, held) == req' = [req EXCEPT ![r] = held]
End(r) == Become(r, Idle)

-----------------------------------------------------------------------------
(* handleLogin: the code names a user, then a session is made for that user. *)
FindUserByCode(r, code) ==
  /\ req[r] = Idle
  /\ codeToID[code] # None
  /\ Become(r, [pc |-> "issue", user |-> codeToID[code], code |-> code])
  /\ UNCHANGED <<storeVars, now>>

(* createSession reads the clock before it calls the store.                 *)
IssueSession(r) ==
  /\ req[r].pc = "issue"
  /\ Become(r, [pc |-> "session", user |-> req[r].user, code |-> req[r].code,
                expires |-> now + TTL])
  /\ UNCHANGED <<storeVars, now>>

(* Definitions named Bad... are plausible mistakes in the ones they precede; *)
(* the specification never uses them.                                        *)
BadSessionUser(id) == TRUE
SessionUser(id)    == users[id] # None

CreateSession(r) ==
  /\ req[r].pc = "session"
  /\ SessionUser(req[r].user)
  /\ \E t \in Tokens \ minted :
       /\ sessions' = [sessions EXCEPT ![t] =
            [user |-> req[r].user, expires |-> req[r].expires]]
       /\ minted' = minted \cup {t}
  /\ End(r)
  /\ UNCHANGED <<users, issuedIds, codeToID, now>>

(* FindUserBySession.                                                       *)
BadAlive(t) == sessions[t].expires # now
Alive(t)    == sessions[t].expires > now
Accepts(t) == sessions[t] # None /\ Alive(t) /\ users[sessions[t].user] # None

BadEntitled(id) == users[id] # None
Entitled(id)    == IsAdmin(id)

(* requireAdmin: the request shows a token of the administrator it goes on as. *)
Admit(r, actor, held) ==
  /\ req[r] = Idle
  /\ \E t \in Tokens : Accepts(t) /\ sessions[t].user = actor
  /\ Entitled(actor)
  /\ Become(r, held)
  /\ UNCHANGED <<storeVars, now>>

-----------------------------------------------------------------------------
(* POST /api/admin/users                                                    *)
BeginCreate(r, actor) ==
  \E name \in Names :
    Admit(r, actor, [pc |-> "create", actor |-> actor, name |-> name])

BadFresh(id) == users[id] = None
Fresh(id)    == id \notin issuedIds

BadIssued(id) == issuedIds
Issued(id)    == issuedIds \cup {id}

(* The random code must be free: a clash is an error and changes nothing.  *)
CreateManagedUser(r) ==
  /\ req[r].pc = "create"
  /\ \E id \in Ids, code \in Codes :
       /\ Fresh(id)
       /\ codeToID[code] = None
       /\ users' = [users EXCEPT ![id] =
            [name |-> req[r].name, code |-> code, admin |-> FALSE]]
       /\ codeToID' = [codeToID EXCEPT ![code] = id]
       /\ issuedIds' = Issued(id)
  /\ End(r)
  /\ UNCHANGED <<sessions, minted, now>>

(* PATCH /api/admin/users/{id} with isAdmin and, or, a name.  Taking rights *)
(* away is refused on oneself and counts the administrators first.          *)
BadNotSelf(actor, target) == TRUE
NotSelf(actor, target)    == actor # target

BeginDemote(r, actor, target) ==
  /\ NotSelf(actor, target)
  /\ \E name \in Names \cup {NoName} :
       Admit(r, actor, [pc |-> "count", actor |-> actor, target |-> target,
                        admin |-> FALSE, name |-> name])

BeginPromote(r, actor, target) ==
  \E name \in Names \cup {NoName} :
    Admit(r, actor, [pc |-> "flag", actor |-> actor, target |-> target,
                     admin |-> TRUE, name |-> name])

BeginRename(r, actor, target) ==
  \E name \in Names :
    Admit(r, actor, [pc |-> "name", actor |-> actor, target |-> target, name |-> name])

(* ListUsers must show two administrators or more.                          *)
CountAdmins(r) ==
  /\ req[r].pc = "count"
  /\ \E a, b \in Admins : a # b
  /\ req' = [req EXCEPT ![r].pc = "flag"]
  /\ UNCHANGED <<storeVars, now>>

UpdateUserAdmin(r) ==
  /\ req[r].pc = "flag"
  /\ users[req[r].target] # None
  /\ users' = [users EXCEPT ![req[r].target].admin = req[r].admin]
  /\ IF req[r].name = NoName
     THEN End(r)
     ELSE Become(r, [pc |-> "name", actor |-> req[r].actor,
                     target |-> req[r].target, name |-> req[r].name])
  /\ UNCHANGED <<issuedIds, codeToID, sessions, minted, now>>

UpdateUserName(r) ==
  /\ req[r].pc = "name"
  /\ users[req[r].target] # None
  /\ users' = [users EXCEPT ![req[r].target].name = req[r].name]
  /\ End(r)
  /\ UNCHANGED <<issuedIds, codeToID, sessions, minted, now>>

(* DELETE /api/admin/users/{id}: refused on oneself, no count.              *)
BeginDelete(r, actor, target) ==
  /\ NotSelf(actor, target)
  /\ Admit(r, actor, [pc |-> "delete", actor |-> actor, target |-> target])

BadIndexWithout(id) == codeToID
IndexWithout(id)    == [codeToID EXCEPT ![users[id].code] = None]

SessionsWithout(id) ==
  [t \in Tokens |-> IF sessions[t] # None /\ sessions[t].user = id
                    THEN None ELSE sessions[t]]

(* The account goes together with its code and its sessions.               *)
DeleteUser(r) ==
  /\ req[r].pc = "delete"
  /\ users[req[r].target] # None
  /\ codeToID' = IndexWithout(req[r].target)
  /\ sessions' = SessionsWithout(req[r].target)
  /\ users' = [users EXCEPT ![req[r].target] = None]
  /\ End(r)
  /\ UNCHANGED <<issuedIds, minted, now>>

-----------------------------------------------------------------------------
(* A store call answers with an error (not found, conflict, storage error)  *)
(* or a guard refuses: the handler stops and what it wrote stays.           *)
FailRequest(r) ==
  /\ req[r] # Idle
  /\ End(r)
  /\ UNCHANGED <<storeVars, now>>

Tick ==
  /\ now < MaxTime
  /\ now' = now + 1
  /\ UNCHANGED <<storeVars, req>>

Next ==
  \/ Tick
  \/ \E r \in Requests :
       \/ \E code \in Codes : FindUserByCode(r, code)
       \/ IssueSession(r) \/ CreateSession(r) \/ CreateManagedUser(r) \/ CountAdmins(r)
       \/ UpdateUserAdmin(r) \/ UpdateUserName(r) \/ DeleteUser(r)
       \/ FailRequest(r)
       \/ \E actor \in Ids :
            \/ BeginCreate(r, actor)
            \/ \E target \in Ids :
                 \/ BeginDemote(r, actor, target) \/ BeginPromote(r, actor, target)
                 \/ BeginRename(r, actor, target) \/ BeginDelete(r, actor, target)

Spec == Init /\ [][Next]_accountVars

-----------------------------------------------------------------------------
(* Accounts, the code index, sessions and requests are of the declared kinds; *)
(* nothing exists under an id or token that was never handed out.             *)
TypeOK ==
  /\ users \in [Ids -> Account \cup {None}]
  /\ issuedIds \in SUBSET Ids
  /\ \A id \in Ids \ issuedIds : users[id] = None
  /\ codeToID \in [Codes -> Ids \cup {None}]
  /\ sessions \in [Tokens -> Session \cup {None}]
  /\ minted \in SUBSET Tokens
  /\ \A t \in Tokens \ minted : sessions[t] = None
  /\ now \in 0..MaxTime
  /\ req \in [Requests -> Request]

(* The index a login goes by and the accounts agree: every code leads to the *)
(* one live account that has it, and to nothing once that account is gone.   *)
CodesFindTheirUser ==
  \A c \in Codes, id \in Ids :
    codeToID[c] = id <=> users[id] # None /\ users[id].code = c

(* No session outlives its account, also when the account is deleted between *)
(* the two store calls of its login.                                         *)
SessionsHaveUsers ==
  \A t \in Tokens : sessions[t] # None => users[sessions[t].user] # None

(* A login gives a session to the account whose code was presented, even if  *)
(* accounts are deleted and created while it runs.                           *)
LoginHonoursCode ==
  [][\A t \in Tokens : sessions[t] = None /\ sessions'[t] # None =>
       \E r \in Requests :
         /\ req[r].pc = "session" /\ req'[r] = Idle
         /\ users[sessions'[t].user].code = req[r].code]_accountVars

(* A token that was handed out and is refused, because it expired or its     *)
(* account was deleted, is refused for ever.                                 *)
RefusedForGood ==
  [][\A t \in minted : ~Accepts(t) => ~Accepts(t)']_accountVars

(* The guards of the administrator handlers: the step that leaves the system *)
(* without administrators is made for an actor who lost its own rights, or   *)
(* its account, while its request was running.                               *)
ActiveAdminNeverLast ==
  [][\A r \in Requests :
       req'[r] # req[r] /\ req[r].pc \in {"flag", "delete"} /\ IsAdmin(req[r].actor)
         => Admins' # {}]_accountVars

LockedOut ==
  /\ Admins = {}
  /\ \A r \in Requests : req[r].pc = "flag" => ~req[r].admin

(* Rights come from administrators only: once there is none and no promotion *)
(* is under way, no sequence of requests, however old its sessions and       *)
(* counts are, makes an administrator again.                                 *)
LockOutIsFinal == [][LockedOut => LockedOut']_accountVars

(* handleAdminUserByID refuses a demotion with "cannot remove the last       *)
(* admin": a demotion leaves an administrator behind.  It counts before it   *)
(* writes, so a second administrator may be gone by then, and this fails.    *)
DemotionKeepsAnAdmin ==
  [][\A r \in Requests :
       req'[r] # req[r] /\ req[r].pc = "flag" /\ Admins # {}
         => Admins' # {}]_accountVars
=============================================================================
