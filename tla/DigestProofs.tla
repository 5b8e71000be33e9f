---------------------------- MODULE DigestProofs ----------------------------
(***************************************************************************)
(* The digest tables and the handlers that use them, for any number of     *)
(* users, digests, saves and requests in flight.  First what the calls of  *)
(* the store keep (module DigestStore).  The handlers (module DigestApi)   *)
(* reach the tables only through whole store calls, so they inherit it,    *)
(* and what they have read stays good enough for what they write.          *)
(***************************************************************************)
EXTENDS DigestApi, TLAPS

LEMMA InitType == Init => TypeOK
BY DigestStoreAssumption DEF Init, TypeOK, FirstRevisions, Digest, Revision

(* An autosave's row keeps the owner, takes the state and adds one to the  *)
(* version.                                                                *)
LEMMA SavedDigestType ==
  ASSUME NEW g \in Digest, NEW title \in Titles, NEW state \in State,
         NEW type \in KnownTypes \cup {NoType, UnknownType}
  PROVE  /\ SavedDigest(g, title, type, state) \in Digest
         /\ SavedDigest(g, title, type, state).owner = g.owner
         /\ SavedDigest(g, title, type, state).version = g.version + 1
         /\ SavedDigest(g, title, type, state).state = state
BY DigestStoreAssumption DEF SavedDigest, KeptType, Bump, Digest

(***************************************************************************)
(* Type correctness, one lemma per way a call changes the tables.          *)
(***************************************************************************)
LEMMA CreateType ==
  ASSUME TypeOK, NEW u \in Users, NEW d \in DigestIds, NEW title \in Titles,
         NEW type \in KnownTypes, NEW state \in State,
         CreateDigest(u, d, title, type, state)
  PROVE  TypeOK'
BY DEF TypeOK, CreateDigest, Digest, Revision

LEMMA AutosaveType ==
  ASSUME TypeOK, NEW u \in Users, NEW d \in DigestIds, NEW title \in Titles,
         NEW type \in KnownTypes \cup {NoType, UnknownType}, NEW state \in State,
         AutosaveDigest(u, d, title, type, state)
  PROVE  TypeOK'
<1> DEFINE g     == digests[d]
           saved == SavedDigest(g, title, type, state)
           row   == [digest |-> d, version |-> saved.version, state |-> state]
<1>1. g \in Digest
  BY DEF TypeOK, AutosaveDigest, Owned
<1>2. saved \in Digest
  BY <1>1, SavedDigestType
<1>3. row \in Revision
  <2>1. saved.version \in Nat \ {0}
    BY <1>2 DEF Digest
  <2> QED
    BY <2>1 DEF Revision
<1>4. d \in issued
  BY DEF TypeOK, AutosaveDigest, Owned
<1>5. /\ digests' = [digests EXCEPT ![d] = saved]
      /\ revisions' = revisions \cup {row}
      /\ UNCHANGED <<users, issued>>
  BY DEF AutosaveDigest
<1> HIDE DEF saved, row, g
<1> QED
  BY <1>2, <1>3, <1>4, <1>5 DEF TypeOK

LEMMA DropType ==
  ASSUME TypeOK, NEW ids \in SUBSET DigestIds, Drop(ids),
         users' \subseteq users, UNCHANGED issued
  PROVE  TypeOK'
BY DEF TypeOK, Drop

LEMMA TypeStep == TypeOK /\ [Next]_vars => TypeOK'
<1> SUFFICES ASSUME TypeOK, [Next]_vars PROVE TypeOK'
  OBVIOUS
<1>1. ASSUME NEW u \in Users, DeleteUser(u) PROVE TypeOK'
  BY <1>1, DropType DEF DeleteUser
<1>2. ASSUME NEW u \in Users, NEW d \in DigestIds, DeleteDigest(u, d) PROVE TypeOK'
  BY <1>2, DropType DEF DeleteDigest
<1>3. CASE UNCHANGED vars
  BY <1>3 DEF vars, TypeOK
<1> QED
  BY <1>1, <1>2, <1>3, CreateType, AutosaveType DEF Next

(* The tables stay well typed.                                             *)
THEOREM TypeCorrect == Spec => []TypeOK
BY InitType, TypeStep, PTL DEF Spec

(***************************************************************************)
(* Histories.  A create starts one for an id that has none, an autosave    *)
(* appends the next version, and a deletion takes the whole history away.  *)
(***************************************************************************)
LEMMA InitHistory == Init => HistoryComplete
<1> SUFFICES ASSUME Init PROVE HistoryComplete
  OBVIOUS
<1>1. \A d \in DigestIds : digests[d] # None => digests[d].version = 1
  BY DigestStoreAssumption DEF Init
<1>2. revisions = {[digest |-> d, version |-> 1, state |-> digests[d].state] :
                     d \in {e \in DigestIds : digests[e] # None}}
  BY DEF Init, FirstRevisions
<1> QED
  BY <1>1, <1>2 DEF HistoryComplete

LEMMA CreateHistory ==
  ASSUME TypeOK, HistoryComplete, NEW u \in Users, NEW d \in DigestIds,
         NEW title \in Titles, NEW type \in KnownTypes, NEW state \in State,
         CreateDigest(u, d, title, type, state)
  PROVE  HistoryComplete'
<1> DEFINE g   == [owner |-> u, title |-> title, type |-> type, version |-> 1,
                   state |-> state]
           row == [digest |-> d, version |-> 1, state |-> state]
<1>1. digests[d] = None
  BY DEF TypeOK, CreateDigest, Fresh
<1>2. g # None
  BY DigestStoreAssumption DEF Digest
<1>3. /\ digests' = [digests EXCEPT ![d] = g]
      /\ revisions' = revisions \cup {row}
  BY DEF CreateDigest
<1>4. \A x \in revisions : x.digest # d
  BY <1>1 DEF HistoryComplete
<1>5. digests'[d] = g /\ \A e \in DigestIds \ {d} : digests'[e] = digests[e]
  BY <1>3 DEF TypeOK
<1> QED
  BY <1>2, <1>3, <1>4, <1>5 DEF HistoryComplete, TypeOK, Revision

LEMMA AutosaveHistory ==
  ASSUME TypeOK, HistoryComplete, NEW u \in Users, NEW d \in DigestIds,
         NEW title \in Titles, NEW type \in KnownTypes \cup {NoType, UnknownType},
         NEW state \in State, AutosaveDigest(u, d, title, type, state)
  PROVE  HistoryComplete'
<1> DEFINE g     == digests[d]
           saved == SavedDigest(g, title, type, state)
           row   == [digest |-> d, version |-> saved.version, state |-> state]
<1>1. g # None /\ g \in Digest /\ g.version \in Nat \ {0}
  BY DEF TypeOK, AutosaveDigest, Owned, Digest
<1>2. /\ saved \in Digest /\ saved # None
      /\ saved.version = g.version + 1 /\ saved.state = state
  BY <1>1, SavedDigestType, DigestStoreAssumption
<1>3. /\ digests' = [digests EXCEPT ![d] = saved]
      /\ revisions' = revisions \cup {row}
  BY DEF AutosaveDigest
<1>4. digests'[d] = saved /\ \A e \in DigestIds \ {d} : digests'[e] = digests[e]
  BY <1>3 DEF TypeOK
<1>5. \A x \in revisions : x \in Revision
  BY DEF TypeOK
<1>6. row.digest = d /\ row.version = g.version + 1 /\ row.state = state
  BY <1>2
<1> HIDE DEF saved, row, g
<1>7. \A x \in revisions : x.digest = d => x.version \in 1..g.version
  BY DEF HistoryComplete, g
<1>8. \A x \in revisions' :
        digests'[x.digest] # None /\ x.version \in 1..digests'[x.digest].version
  BY <1>1, <1>2, <1>3, <1>4, <1>5, <1>6, <1>7 DEF HistoryComplete, Revision
<1>9. \A x, y \in revisions' :
        x.digest = y.digest /\ x.version = y.version => x = y
  BY <1>1, <1>3, <1>6, <1>7 DEF HistoryComplete
<1>10. ASSUME NEW e \in DigestIds, digests'[e] # None
       PROVE  /\ \A v \in 1..digests'[e].version :
                   \E x \in revisions' : x.digest = e /\ x.version = v
              /\ [digest |-> e, version |-> digests'[e].version,
                  state |-> digests'[e].state] \in revisions'
  <2>1. CASE e = d
    <3>1. \A v \in 1..g.version : \E x \in revisions : x.digest = d /\ x.version = v
      BY <1>1 DEF HistoryComplete, g
    <3>2. \A v \in 1..saved.version : v \in 1..g.version \/ v = g.version + 1
      BY <1>1, <1>2
    <3>3. row = [digest |-> d, version |-> saved.version, state |-> saved.state]
      BY <1>2 DEF row
    <3> QED
      BY <2>1, <1>3, <1>4, <1>6, <3>1, <3>2, <3>3
  <2>2. CASE e # d
    BY <1>10, <2>2, <1>3, <1>4 DEF HistoryComplete
  <2> QED
    BY <2>1, <2>2
<1> QED
  BY <1>8, <1>9, <1>10 DEF HistoryComplete

LEMMA DropHistory ==
  ASSUME TypeOK, HistoryComplete, NEW ids \in SUBSET DigestIds, Drop(ids)
  PROVE  HistoryComplete'
<1>1. \A d \in DigestIds : digests'[d] = IF d \in ids THEN None ELSE digests[d]
  BY DEF Drop
<1>2. revisions' = {x \in revisions : x.digest \notin ids}
  BY DEF Drop
<1>3. \A x \in revisions : x.digest \in DigestIds
  BY DEF TypeOK, Revision
<1>4. \A x \in revisions' : x \in revisions /\ digests'[x.digest] = digests[x.digest]
  BY <1>1, <1>2, <1>3
<1>5. ASSUME NEW d \in DigestIds, digests'[d] # None
      PROVE  /\ digests'[d] = digests[d]
             /\ \A x \in revisions : x.digest = d => x \in revisions'
  BY <1>5, <1>1, <1>2
<1>6. \A x \in revisions' :
        digests'[x.digest] # None /\ x.version \in 1..digests'[x.digest].version
  BY <1>4 DEF HistoryComplete
<1>7. \A x, y \in revisions' :
        x.digest = y.digest /\ x.version = y.version => x = y
  BY <1>4 DEF HistoryComplete
<1>8. ASSUME NEW d \in DigestIds, digests'[d] # None
      PROVE  /\ \A v \in 1..digests'[d].version :
                  \E x \in revisions' : x.digest = d /\ x.version = v
             /\ [digest |-> d, version |-> digests'[d].version,
                 state |-> digests'[d].state] \in revisions'
  BY <1>5, <1>8 DEF HistoryComplete
<1> QED
  BY <1>6, <1>7, <1>8 DEF HistoryComplete

LEMMA HistoryStep == TypeOK /\ HistoryComplete /\ [Next]_vars => HistoryComplete'
<1> SUFFICES ASSUME TypeOK, HistoryComplete, [Next]_vars PROVE HistoryComplete'
  OBVIOUS
<1>1. ASSUME NEW u \in Users, DeleteUser(u) PROVE HistoryComplete'
  BY <1>1, DropHistory DEF DeleteUser
<1>2. ASSUME NEW u \in Users, NEW d \in DigestIds, DeleteDigest(u, d)
      PROVE  HistoryComplete'
  BY <1>2, DropHistory DEF DeleteDigest
<1>3. CASE UNCHANGED vars
  BY <1>3 DEF vars, HistoryComplete
<1> QED
  BY <1>1, <1>2, <1>3, CreateHistory, AutosaveHistory DEF Next

(* Whatever calls run in whatever order, every version of every live digest *)
(* can be rolled back to and the latest revision is the stored state.       *)
THEOREM HistoryIsComplete == Spec => []HistoryComplete
<1>1. Init => TypeOK /\ HistoryComplete
  BY InitType, InitHistory
<1>2. TypeOK /\ HistoryComplete /\ [Next]_vars => (TypeOK /\ HistoryComplete)'
  BY TypeStep, HistoryStep
<1> QED
  BY <1>1, <1>2, PTL DEF Spec

(***************************************************************************)
(* Ownership and append-only histories.                                    *)
(***************************************************************************)
LEMMA OwnersStep == TypeOK /\ OwnersExist /\ [Next]_vars => OwnersExist'
<1> SUFFICES ASSUME TypeOK, OwnersExist, [Next]_vars PROVE OwnersExist'
  OBVIOUS
<1>1. ASSUME NEW u \in Users, DeleteUser(u) PROVE OwnersExist'
  BY <1>1 DEF DeleteUser, Drop, Owned, OwnersExist
<1>2. ASSUME NEW u \in Users, NEW d \in DigestIds, DeleteDigest(u, d)
      PROVE  OwnersExist'
  BY <1>2 DEF DeleteDigest, Drop, OwnersExist
<1>3. ASSUME NEW u \in Users, NEW d \in DigestIds, NEW title \in Titles,
             NEW type \in KnownTypes, NEW state \in State,
             CreateDigest(u, d, title, type, state)
      PROVE  OwnersExist'
  BY <1>3 DEF CreateDigest, HasAccount, OwnersExist, TypeOK
<1>4. ASSUME NEW u \in Users, NEW d \in DigestIds, NEW title \in Titles,
             NEW type \in KnownTypes \cup {NoType, UnknownType}, NEW state \in State,
             AutosaveDigest(u, d, title, type, state)
      PROVE  OwnersExist'
  <2> DEFINE saved == SavedDigest(digests[d], title, type, state)
  <2>1. digests[d] # None /\ digests[d] \in Digest
    BY <1>4 DEF AutosaveDigest, Owned, TypeOK
  <2>2. saved.owner = digests[d].owner
    BY <2>1, SavedDigestType
  <2>3. digests' = [digests EXCEPT ![d] = saved] /\ users' = users
    BY <1>4 DEF AutosaveDigest
  <2> HIDE DEF saved
  <2> QED
    BY <2>1, <2>2, <2>3 DEF OwnersExist, TypeOK
<1>5. CASE UNCHANGED vars
  BY <1>5 DEF vars, OwnersExist
<1> QED
  BY <1>1, <1>2, <1>3, <1>4, <1>5 DEF Next

(* A digest is never left behind by the deletion of its owner.              *)
THEOREM OwnersAlwaysExist == Spec => []OwnersExist
<1>1. Init => OwnersExist
  BY DigestStoreAssumption DEF Init, OwnersExist, Digest
<1> QED
  BY <1>1, InitType, TypeStep, OwnersStep, PTL DEF Spec

(* What a single step may do to the history of an issued digest.            *)
Appends ==
  \A d \in issued :
    /\ digests[d] = None => digests'[d] = None
    /\ digests'[d] # None =>
         {x \in revisions : x.digest = d} \subseteq revisions'

LEMMA AppendStep == TypeOK /\ [Next]_vars => [Appends]_vars
<1> SUFFICES ASSUME TypeOK, [Next]_vars PROVE Appends
  OBVIOUS
<1>1. ASSUME NEW ids \in SUBSET DigestIds, Drop(ids) PROVE Appends
  BY <1>1 DEF Drop, Appends, TypeOK
<1>2. ASSUME NEW u \in Users, DeleteUser(u) PROVE Appends
  BY <1>1, <1>2 DEF DeleteUser
<1>3. ASSUME NEW u \in Users, NEW d \in DigestIds, DeleteDigest(u, d) PROVE Appends
  BY <1>1, <1>3 DEF DeleteDigest
<1>4. ASSUME NEW u \in Users, NEW d \in DigestIds, NEW title \in Titles,
             NEW type \in KnownTypes, NEW state \in State,
             CreateDigest(u, d, title, type, state)
      PROVE  Appends
  BY <1>4 DEF CreateDigest, Fresh, Appends, TypeOK
<1>5. ASSUME NEW u \in Users, NEW d \in DigestIds, NEW title \in Titles,
             NEW type \in KnownTypes \cup {NoType, UnknownType}, NEW state \in State,
             AutosaveDigest(u, d, title, type, state)
      PROVE  Appends
  <2>1. digests[d] # None
    BY <1>5 DEF AutosaveDigest, Owned
  <2>2. \A e \in DigestIds \ {d} : digests'[e] = digests[e]
    BY <1>5 DEF AutosaveDigest, TypeOK
  <2>3. revisions \subseteq revisions'
    BY <1>5 DEF AutosaveDigest
  <2> QED
    BY <2>1, <2>2, <2>3 DEF Appends, TypeOK
<1>6. CASE UNCHANGED vars
  BY <1>6 DEF vars, Appends
<1> QED
  BY <1>2, <1>3, <1>4, <1>5, <1>6 DEF Next

(* A late save never revives a deleted digest and no save loses or rewrites *)
(* a revision of a live one.                                                *)
THEOREM HistoriesOnlyGrow == Spec => HistoryIsAppendOnly
<1>1. TypeOK /\ [Next]_vars => [\A d \in issued :
         /\ digests[d] = None => digests'[d] = None
         /\ digests'[d] # None =>
              {x \in revisions : x.digest = d} \subseteq revisions']_vars
  BY AppendStep DEF Appends
<1> QED
  BY <1>1, TypeCorrect, PTL DEF Spec, HistoryIsAppendOnly

-----------------------------------------------------------------------------
(***************************************************************************)
(* The handlers.                                                           *)
(***************************************************************************)

(* A request holds the record of the point its handler has reached.        *)
LEMMA RequestAt ==
  ASSUME NEW q \in Request
  PROVE  /\ q.pc = "create" =>
              q \in [pc : {"create"}, user : Users, title : Titles,
                     type : KnownTypes, state : State]
         /\ q.pc = "save" =>
              q \in [pc : {"save"}, user : Users, digest : DigestIds,
                     title : Titles, type : RawTypes, state : State]
         /\ q.pc = "delete" =>
              q \in [pc : {"delete"}, user : Users, digest : DigestIds]
         /\ q.pc = "find" =>
              q \in [pc : {"find"}, user : Users, digest : DigestIds, rev : RevisionIds]
         /\ q.pc = "read" =>
              q \in [pc : {"read"}, user : Users, digest : DigestIds,
                     rev : RevisionIds, state : State]
         /\ q.pc = "write" =>
              q \in [pc : {"write"}, user : Users, digest : DigestIds,
                     rev : RevisionIds, state : State, title : Titles,
                     type : KnownTypes \cup {UnknownType}, seen : Nat]
BY DEF Request, Idle

LEMMA InputTypes ==
  /\ \A title \in RawTitles : CleanTitle(title) \in Titles
  /\ \A type \in RawTypes : ResolveType(type) \in KnownTypes
  /\ \A state \in State : Normalize(state) \in State
BY DigestApiAssumption, DigestStoreAssumption
   DEF RawTitles, CleanTitle, RawTypes, ResolveType, Normalize, State

(***************************************************************************)
(* A step of a handler is a step of the store or leaves the tables alone.  *)
(***************************************************************************)
LEMMA HandlerStep == ApiTypeOK /\ [ApiNext]_apiVars => [Next]_vars
<1> SUFFICES ASSUME ApiTypeOK, ApiNext PROVE [Next]_vars
  BY DEF apiVars
<1>1. ASSUME NEW u \in Users, RemoveUser(u) PROVE Next
  BY <1>1 DEF RemoveUser, Next
<1>2. ASSUME NEW r \in Requests, FinishCreate(r) PROVE Next
  <2>1. req[r] \in [pc : {"create"}, user : Users, title : Titles,
                    type : KnownTypes, state : State]
    BY <1>2, RequestAt DEF ApiTypeOK, FinishCreate
  <2> QED
    BY <1>2, <2>1 DEF FinishCreate, Next
<1>3. ASSUME NEW r \in Requests, FinishAutosave(r) PROVE Next
  <2>1. req[r] \in [pc : {"save"}, user : Users, digest : DigestIds,
                    title : Titles, type : RawTypes, state : State]
    BY <1>3, RequestAt DEF ApiTypeOK, FinishAutosave
  <2> QED
    BY <1>3, <2>1 DEF FinishAutosave, Next, RawTypes
<1>4. ASSUME NEW r \in Requests, FinishDelete(r) PROVE Next
  <2>1. req[r] \in [pc : {"delete"}, user : Users, digest : DigestIds]
    BY <1>4, RequestAt DEF ApiTypeOK, FinishDelete
  <2> QED
    BY <1>4, <2>1 DEF FinishDelete, Next
<1>5. ASSUME NEW r \in Requests, FinishRollback(r) PROVE Next
  <2>1. req[r] \in [pc : {"write"}, user : Users, digest : DigestIds,
                    rev : RevisionIds, state : State, title : Titles,
                    type : KnownTypes \cup {UnknownType}, seen : Nat]
    BY <1>5, RequestAt DEF ApiTypeOK, FinishRollback
  <2> QED
    BY <1>5, <2>1 DEF FinishRollback, Next
<1>6. ASSUME NEW r \in Requests, NEW u \in Users, NEW d \in DigestIds,
             \/ BeginAutosave(r, u, d)
             \/ BeginDelete(r, u, d) \/ BeginRollback(r, u, d)
      PROVE  UNCHANGED vars
  BY <1>6 DEF BeginAutosave, BeginDelete, BeginRollback, Begin
<1>7. ASSUME NEW r \in Requests, NEW u \in Users, BeginCreate(r, u)
      PROVE  UNCHANGED vars
  BY <1>7 DEF BeginCreate, Begin
<1>8. ASSUME NEW r \in Requests,
             FindRevision(r) \/ ReadCurrent(r) \/ FailRequest(r)
      PROVE  UNCHANGED vars
  BY <1>8 DEF FindRevision, ReadCurrent, FailRequest
<1> QED
  BY <1>1, <1>2, <1>3, <1>4, <1>5, <1>6, <1>7, <1>8 DEF ApiNext

LEMMA RequestsStep == ApiTypeOK /\ [ApiNext]_apiVars => (req \in [Requests -> Request])'
<1> SUFFICES ASSUME ApiTypeOK, ApiNext PROVE req' \in [Requests -> Request]
  BY DEF apiVars, ApiTypeOK
<1> USE DEF ApiTypeOK
<1>1. Idle \in Request
  BY DEF Request
<1>2. ASSUME NEW r \in Requests, End(r) PROVE req' \in [Requests -> Request]
  BY <1>1, <1>2 DEF End
<1>3. ASSUME NEW r \in Requests, NEW u \in Users, NEW held \in Request,
             Begin(r, u, held)
      PROVE  req' \in [Requests -> Request]
  BY <1>3 DEF Begin
<1>4. ASSUME NEW r \in Requests, NEW u \in Users, BeginCreate(r, u)
      PROVE  req' \in [Requests -> Request]
  <2>1. PICK title \in RawTitles, type \in RawTypes, state \in Sent :
          Begin(r, u, [pc |-> "create", user |-> u, title |-> CleanTitle(title),
                       type |-> ResolveType(type), state |-> Normalize(state)])
    BY <1>4 DEF BeginCreate
  <2>2. state \in State
    BY DigestApiAssumption
  <2>3. [pc |-> "create", user |-> u, title |-> CleanTitle(title),
         type |-> ResolveType(type), state |-> Normalize(state)] \in Request
    BY <2>2, InputTypes DEF Request
  <2> QED
    BY <2>1, <2>3, <1>3
<1>5. ASSUME NEW r \in Requests, NEW u \in Users, NEW d \in DigestIds,
             BeginAutosave(r, u, d)
      PROVE  req' \in [Requests -> Request]
  <2>1. PICK title \in RawTitles, type \in RawTypes, state \in Sent :
          Begin(r, u, [pc |-> "save", user |-> u, digest |-> d,
                       title |-> CleanTitle(title), type |-> type,
                       state |-> Normalize(state)])
    BY <1>5 DEF BeginAutosave
  <2>2. state \in State
    BY DigestApiAssumption
  <2>3. [pc |-> "save", user |-> u, digest |-> d, title |-> CleanTitle(title),
         type |-> type, state |-> Normalize(state)] \in Request
    BY <2>2, InputTypes DEF Request
  <2> QED
    BY <2>1, <2>3, <1>3
<1>6. ASSUME NEW r \in Requests, NEW u \in Users, NEW d \in DigestIds,
             BeginDelete(r, u, d)
      PROVE  req' \in [Requests -> Request]
  <2>1. [pc |-> "delete", user |-> u, digest |-> d] \in Request
    BY DEF Request
  <2> QED
    BY <1>6, <2>1, <1>3 DEF BeginDelete
<1>7. ASSUME NEW r \in Requests, NEW u \in Users, NEW d \in DigestIds,
             BeginRollback(r, u, d)
      PROVE  req' \in [Requests -> Request]
  <2>1. \A rev \in RevisionIds :
          [pc |-> "find", user |-> u, digest |-> d, rev |-> rev] \in Request
    BY DEF Request
  <2> QED
    BY <1>7, <2>1, <1>3 DEF BeginRollback
<1>8. ASSUME NEW r \in Requests, FindRevision(r)
      PROVE  req' \in [Requests -> Request]
  <2>1. req[r] \in [pc : {"find"}, user : Users, digest : DigestIds, rev : RevisionIds]
    BY <1>8, RequestAt DEF FindRevision
  <2>2. PICK x \in revisions : req' = [req EXCEPT ![r] =
          [pc |-> "read", user |-> req[r].user, digest |-> req[r].digest,
           rev |-> req[r].rev, state |-> Normalize(x.state)]]
    BY <1>8 DEF FindRevision, RevisionOf
  <2>3. Normalize(x.state) \in State
    BY InputTypes DEF TypeOK, Revision
  <2>4. [pc |-> "read", user |-> req[r].user, digest |-> req[r].digest,
         rev |-> req[r].rev, state |-> Normalize(x.state)] \in Request
    BY <2>1, <2>3 DEF Request
  <2> QED
    BY <2>2, <2>4
<1>9. ASSUME NEW r \in Requests, ReadCurrent(r)
      PROVE  req' \in [Requests -> Request]
  <2>1. req[r] \in [pc : {"read"}, user : Users, digest : DigestIds,
                    rev : RevisionIds, state : State]
    BY <1>9, RequestAt DEF ReadCurrent
  <2>2. digests[req[r].digest] \in Digest
    BY <1>9, <2>1 DEF ReadCurrent, Owned, TypeOK
  <2>3. [pc |-> "write", user |-> req[r].user, digest |-> req[r].digest,
         rev |-> req[r].rev, state |-> req[r].state,
         title |-> CurrentTitle(digests[req[r].digest]),
         type |-> digests[req[r].digest].type,
         seen |-> digests[req[r].digest].version] \in Request
    BY <2>1, <2>2 DEF Request, Digest, CurrentTitle
  <2> QED
    BY <1>9, <2>3 DEF ReadCurrent
<1>10. ASSUME NEW u \in Users, RemoveUser(u) PROVE req' \in [Requests -> Request]
  BY <1>10 DEF RemoveUser
<1>11. ASSUME NEW r \in Requests,
              \/ FinishCreate(r) \/ FinishAutosave(r) \/ FinishDelete(r)
              \/ FinishRollback(r) \/ FailRequest(r)
       PROVE  End(r)
  BY <1>11 DEF FinishCreate, FinishAutosave, FinishDelete, FinishRollback, FailRequest
<1> QED
  BY <1>2, <1>4, <1>5, <1>6, <1>7, <1>8, <1>9, <1>10, <1>11 DEF ApiNext

(* Every request holds what its handler can have read, for any number of    *)
(* requests in flight.                                                      *)
THEOREM ApiTypeCorrect == ApiSpec => []ApiTypeOK
<1>1. ApiInit => ApiTypeOK
  BY InitType DEF ApiInit, ApiTypeOK, Request
<1>2. ApiTypeOK /\ [ApiNext]_apiVars => ApiTypeOK'
  BY HandlerStep, TypeStep, RequestsStep DEF ApiTypeOK
<1> QED
  BY <1>1, <1>2, PTL DEF ApiSpec

(* The handlers implement the store: none of their interleavings touches    *)
(* the tables other than by a whole store call.                             *)
THEOREM HandlersImplementStore == ApiSpec => HandlersUseStore
<1>1. ApiInit => Init
  BY DEF ApiInit
<1> QED
  BY <1>1, HandlerStep, ApiTypeCorrect, PTL DEF ApiSpec, Spec, HandlersUseStore

(* Under the handlers, too, histories are complete, and owners exist.       *)
THEOREM ApiHistories ==
  ApiSpec => [](HistoryComplete /\ OwnersExist) /\ HistoryIsAppendOnly
BY HandlersImplementStore, HistoryIsComplete, OwnersAlwaysExist, HistoriesOnlyGrow, PTL
   DEF HandlersUseStore

-----------------------------------------------------------------------------
(***************************************************************************)
(* What a handler has read stays good enough for its write, whatever other *)
(* requests do in between.                                                 *)
(***************************************************************************)

(* The state a request is going to store has no image left to store.        *)
StateIsStorable(q) ==
  q.pc \in {"create", "save", "read", "write"} => ~Matched(q.state)

(* A rollback holds the state of the revision it was asked for, which is    *)
(* there as long as the digest is.                                          *)
Restores(q) ==
  q.pc \in {"read", "write"} =>
    /\ q.digest \in issued
    /\ digests[q.digest] # None =>
         \E x \in revisions : /\ x.digest = q.digest
                              /\ <<x.digest, x.version>> = q.rev
                              /\ q.state = Normalize(x.state)

(* It holds the title and type of the version it has seen.                 *)
SawCurrent(q) ==
  q.pc = "write" /\ digests[q.digest] # None =>
    /\ q.seen <= digests[q.digest].version
    /\ q.seen = digests[q.digest].version =>
         /\ q.title = digests[q.digest].title
         /\ q.type = digests[q.digest].type

RequestsSound ==
  \A r \in Requests : StateIsStorable(req[r]) /\ Restores(req[r]) /\ SawCurrent(req[r])

ApiIInv == ApiTypeOK /\ RequestsSound

LEMMA StorableImages ==
  ASSUME NEW state \in State, Valid(state)
  PROVE  ~Matched(Normalize(state))
BY DEF Valid, Normalize, Matched, State

(* A store call leaves a digest as it is, deletes it or adds a version.     *)
LEMMA VersionsGrow ==
  ASSUME TypeOK, [Next]_vars, NEW d \in issued
  PROVE  /\ d \in issued'
         /\ digests'[d] # None =>
              \/ digests'[d] = digests[d]
              \/ digests'[d].version = digests[d].version + 1
<1> USE DEF TypeOK
<1>1. ASSUME NEW ids \in SUBSET DigestIds, Drop(ids), UNCHANGED issued
      PROVE  d \in issued' /\ (digests'[d] # None => digests'[d] = digests[d])
  BY <1>1 DEF Drop
<1>2. ASSUME NEW u \in Users, DeleteUser(u)
      PROVE  d \in issued' /\ (digests'[d] # None => digests'[d] = digests[d])
  BY <1>1, <1>2 DEF DeleteUser
<1>3. ASSUME NEW u \in Users, NEW e \in DigestIds, DeleteDigest(u, e)
      PROVE  d \in issued' /\ (digests'[d] # None => digests'[d] = digests[d])
  BY <1>1, <1>3 DEF DeleteDigest
<1>4. ASSUME NEW u \in Users, NEW e \in DigestIds, NEW title \in Titles,
             NEW type \in KnownTypes, NEW state \in State,
             CreateDigest(u, e, title, type, state)
      PROVE  d \in issued' /\ digests'[d] = digests[d]
  BY <1>4 DEF CreateDigest, Fresh
<1>5. ASSUME NEW u \in Users, NEW e \in DigestIds, NEW title \in Titles,
             NEW type \in KnownTypes \cup {NoType, UnknownType}, NEW state \in State,
             AutosaveDigest(u, e, title, type, state)
      PROVE  /\ d \in issued'
             /\ digests'[d] = digests[d] \/ digests'[d].version = digests[d].version + 1
  <2>1. digests[e] \in Digest
    BY <1>5 DEF AutosaveDigest, Owned
  <2>2. SavedDigest(digests[e], title, type, state).version = digests[e].version + 1
    BY <2>1, SavedDigestType
  <2>3. QED
    BY <1>5, <2>2 DEF AutosaveDigest
<1>6. QED
  BY <1>2, <1>3, <1>4, <1>5 DEF Next, vars

(* A store call by anybody leaves what a rollback relies on in place.       *)
LEMMA HeldStays ==
  ASSUME TypeOK, [Next]_vars, NEW q \in Request, Restores(q), SawCurrent(q)
  PROVE  Restores(q)' /\ SawCurrent(q)'
<1>1. SUFFICES ASSUME q.pc \in {"read", "write"}
               PROVE  Restores(q)' /\ SawCurrent(q)'
  BY DEF Restores, SawCurrent
<1>2. q.digest \in issued /\ q.digest \in DigestIds
  BY <1>1 DEF Restores, TypeOK
<1>3. q.digest \in issued'
  BY <1>2, VersionsGrow
<1>4. SUFFICES ASSUME digests'[q.digest] # None
               PROVE  Restores(q)' /\ SawCurrent(q)'
  BY <1>3 DEF Restores, SawCurrent
<1>5. /\ digests[q.digest] # None
      /\ {x \in revisions : x.digest = q.digest} \subseteq revisions'
  BY <1>2, <1>4, AppendStep DEF Appends, vars
<1>6. Restores(q)'
  BY <1>1, <1>3, <1>5 DEF Restores
<1>7. SawCurrent(q)'
  <2>1. digests[q.digest] \in Digest /\ digests[q.digest].version \in Nat
    BY <1>2, <1>5 DEF TypeOK, Digest
  <2>2. CASE digests'[q.digest] = digests[q.digest]
    BY <1>5, <2>2 DEF SawCurrent
  <2>3. CASE digests'[q.digest].version = digests[q.digest].version + 1
    <3>1. q.pc = "write" => q.seen \in Nat /\ q.seen <= digests[q.digest].version
      BY <1>5, RequestAt DEF SawCurrent
    <3>2. QED
      BY <2>1, <2>3, <3>1 DEF SawCurrent
  <2>4. QED
    BY <1>2, <1>4, <2>2, <2>3, VersionsGrow
<1>8. QED
  BY <1>6, <1>7

(* What a handler newly holds was checked or read in this very step.        *)
LEMMA NewlyHeld ==
  ASSUME ApiIInv, [ApiNext]_apiVars, NEW r \in Requests,
         req'[r] # req[r], req'[r] # Idle
  PROVE  StateIsStorable(req[r])' /\ Restores(req[r])' /\ SawCurrent(req[r])'
<1> USE DEF ApiIInv, ApiTypeOK
<1>1. ASSUME NEW s \in Requests, NEW u \in Users, NEW held, Begin(s, u, held)
      PROVE  req'[r] = held
  BY <1>1 DEF Begin
<1>2. ASSUME NEW s \in Requests, End(s)
      PROVE  FALSE
  BY <1>2 DEF End
<1>3. ASSUME NEW s \in Requests, NEW u \in Users, BeginCreate(s, u)
      PROVE  req'[r].pc = "create" /\ ~Matched(req'[r].state)
  <2>1. PICK title \in RawTitles, type \in RawTypes, state \in Sent :
          /\ Valid(state)
          /\ Begin(s, u, [pc |-> "create", user |-> u, title |-> CleanTitle(title),
                          type |-> ResolveType(type), state |-> Normalize(state)])
    BY <1>3 DEF BeginCreate
  <2>2. ~Matched(Normalize(state))
    BY <2>1, StorableImages, DigestApiAssumption
  <2>3. QED
    BY <1>1, <2>1, <2>2
<1>4. ASSUME NEW s \in Requests, NEW u \in Users, NEW d \in DigestIds,
             BeginAutosave(s, u, d)
      PROVE  req'[r].pc = "save" /\ ~Matched(req'[r].state)
  <2>1. PICK title \in RawTitles, type \in RawTypes, state \in Sent :
          /\ Valid(state)
          /\ Begin(s, u, [pc |-> "save", user |-> u, digest |-> d,
                          title |-> CleanTitle(title), type |-> type,
                          state |-> Normalize(state)])
    BY <1>4 DEF BeginAutosave
  <2>2. ~Matched(Normalize(state))
    BY <2>1, StorableImages, DigestApiAssumption
  <2>3. QED
    BY <1>1, <2>1, <2>2
<1>5. ASSUME NEW s \in Requests, NEW u \in Users, NEW d \in DigestIds,
             BeginDelete(s, u, d) \/ BeginRollback(s, u, d)
      PROVE  req'[r].pc \in {"delete", "find"}
  <2>1. CASE BeginDelete(s, u, d)
    BY <1>1, <2>1 DEF BeginDelete
  <2>2. CASE BeginRollback(s, u, d)
    BY <1>1, <2>2 DEF BeginRollback
  <2>3. QED
    BY <1>5, <2>1, <2>2
<1>6. ASSUME NEW s \in Requests, FindRevision(s)
      PROVE  StateIsStorable(req[r])' /\ Restores(req[r])' /\ SawCurrent(req[r])'
  <2>1. s = r
    BY <1>6 DEF FindRevision
  <2>2. req[r] \in [pc : {"find"}, user : Users, digest : DigestIds, rev : RevisionIds]
    BY <1>6, <2>1, RequestAt DEF FindRevision
  <2>3. PICK x \in revisions :
          /\ x.digest = req[r].digest /\ <<x.digest, x.version>> = req[r].rev
          /\ Valid(x.state)
          /\ req' = [req EXCEPT ![r] =
               [pc |-> "read", user |-> req[r].user, digest |-> req[r].digest,
                rev |-> req[r].rev, state |-> Normalize(x.state)]]
    BY <1>6, <2>1 DEF FindRevision, RevisionOf
  <2>4. /\ req'[r].pc = "read" /\ req'[r].digest = req[r].digest
        /\ req'[r].rev = req[r].rev /\ req'[r].state = Normalize(x.state)
    BY <2>3
  <2>5. x.state \in State /\ ~Matched(Normalize(x.state))
    BY <2>3, StorableImages DEF TypeOK, Revision
  <2>6. req[r].digest \in issued /\ UNCHANGED vars
    BY <1>6, <2>1, <2>2 DEF FindRevision, Owned, TypeOK
  <2>7. StateIsStorable(req[r])' /\ SawCurrent(req[r])'
    BY <2>4, <2>5 DEF StateIsStorable, SawCurrent
  <2>8. Restores(req[r])'
    BY <2>3, <2>4, <2>6 DEF Restores, vars
  <2>9. QED
    BY <2>7, <2>8
<1>7. ASSUME NEW s \in Requests, ReadCurrent(s)
      PROVE  StateIsStorable(req[r])' /\ Restores(req[r])' /\ SawCurrent(req[r])'
  <2>1. s = r
    BY <1>7 DEF ReadCurrent
  <2> DEFINE g == digests[req[r].digest]
  <2>2. /\ req[r].pc = "read" /\ UNCHANGED vars
        /\ req'[r] = [pc |-> "write", user |-> req[r].user, digest |-> req[r].digest,
                      rev |-> req[r].rev, state |-> req[r].state,
                      title |-> CurrentTitle(g), type |-> g.type, seen |-> g.version]
    BY <1>7, <2>1 DEF ReadCurrent
  <2>3. req[r] \in [pc : {"read"}, user : Users, digest : DigestIds,
                    rev : RevisionIds, state : State]
    BY <2>2, RequestAt
  <2>4. g \in Digest /\ g.version \in Nat
    BY <1>7, <2>1, <2>3 DEF ReadCurrent, Owned, TypeOK, Digest
  <2>5. StateIsStorable(req[r]) /\ Restores(req[r])
    BY DEF RequestsSound
  <2>6. StateIsStorable(req[r])'
    BY <2>2, <2>5 DEF StateIsStorable
  <2>7. Restores(req[r])'
    BY <2>2, <2>5 DEF Restores, vars
  <2>8. SawCurrent(req[r])'
    BY <2>2, <2>4 DEF SawCurrent, CurrentTitle, vars
  <2>9. QED
    BY <2>6, <2>7, <2>8
<1>8. ASSUME NEW s \in Requests,
             \/ FinishCreate(s) \/ FinishAutosave(s) \/ FinishDelete(s)
             \/ FinishRollback(s) \/ FailRequest(s)
      PROVE  FALSE
  BY <1>2, <1>8
  DEF FinishCreate, FinishAutosave, FinishDelete, FinishRollback, FailRequest
<1>9. ASSUME NEW u \in Users, RemoveUser(u)
      PROVE  FALSE
  BY <1>9 DEF RemoveUser
<1>10. CASE req'[r].pc \in {"create", "save", "delete", "find"}
            /\ (req'[r].pc \in {"create", "save"} =>
                  ~Matched(req'[r].state))
  BY <1>10 DEF StateIsStorable, Restores, SawCurrent
<1>11. QED
  BY <1>3, <1>4, <1>5, <1>6, <1>7, <1>8, <1>9, <1>10 DEF ApiNext, apiVars

LEMMA ApiNextIInv == ApiIInv /\ [ApiNext]_apiVars => ApiIInv'
<1>1. SUFFICES ASSUME ApiIInv, [ApiNext]_apiVars PROVE ApiIInv'
  OBVIOUS
<1>2. [Next]_vars /\ ApiTypeOK'
  BY <1>1, HandlerStep, TypeStep, RequestsStep DEF ApiIInv, ApiTypeOK
<1>3. ASSUME NEW r \in Requests
      PROVE  StateIsStorable(req[r])' /\ Restores(req[r])' /\ SawCurrent(req[r])'
  <2>1. CASE req'[r] = Idle
    BY <2>1 DEF Idle, StateIsStorable, Restores, SawCurrent
  <2>2. CASE req'[r] = req[r]
    <3>1. PICK q \in Request : q = req[r]
      BY <1>1 DEF ApiIInv, ApiTypeOK
    <3>2. StateIsStorable(q) /\ Restores(q) /\ SawCurrent(q)
      BY <1>1, <3>1 DEF ApiIInv, RequestsSound
    <3>3. Restores(q)' /\ SawCurrent(q)'
      BY <1>1, <1>2, <3>2, HeldStays DEF ApiIInv, ApiTypeOK
    <3>4. QED
      BY <2>2, <3>1, <3>2, <3>3 DEF StateIsStorable, Restores, SawCurrent
  <2>3. CASE req'[r] # req[r] /\ req'[r] # Idle
    BY <1>1, <2>3, NewlyHeld
  <2>4. QED
    BY <2>1, <2>2, <2>3
<1>4. QED
  BY <1>2, <1>3 DEF ApiIInv, RequestsSound

LEMMA ApiInitIInv == ApiInit => ApiIInv
<1>1. ApiInit => ApiTypeOK
  BY InitType DEF ApiInit, ApiTypeOK, Request
<1>2. ApiInit => RequestsSound
  BY DEF ApiInit, RequestsSound, StateIsStorable, Restores, SawCurrent, Idle
<1>3. QED
  BY <1>1, <1>2 DEF ApiIInv

LEMMA ApiInvariance == ApiSpec => []ApiIInv
BY ApiInitIInv, ApiNextIInv, PTL DEF ApiSpec

-----------------------------------------------------------------------------
(* Only its own last store call, or an error, ends a request.               *)
LEMMA EndedBy ==
  ASSUME ApiTypeOK, [ApiNext]_apiVars, NEW r \in Requests,
         req[r] # Idle, req'[r] = Idle
  PROVE  \/ FinishCreate(r) \/ FinishAutosave(r) \/ FinishDelete(r)
         \/ FinishRollback(r) \/ FailRequest(r)
<1> USE DEF ApiTypeOK
<1>1. ASSUME NEW s \in Requests, NEW u \in Users,
             \/ BeginCreate(s, u)
             \/ \E d \in DigestIds :
                  \/ BeginAutosave(s, u, d) \/ BeginDelete(s, u, d)
                  \/ BeginRollback(s, u, d)
      PROVE  FALSE
  <2>1. req[s] = Idle
    BY <1>1 DEF BeginCreate, BeginAutosave, BeginDelete, BeginRollback, Begin
  <2>2. \E held : req' = [req EXCEPT ![s] = held]
    BY <1>1 DEF BeginCreate, BeginAutosave, BeginDelete, BeginRollback, Begin
  <2>3. QED
    BY <2>1, <2>2
<1>2. ASSUME NEW s \in Requests, FindRevision(s) \/ ReadCurrent(s)
      PROVE  FALSE
  <2>1. PICK held : req' = [req EXCEPT ![s] = held] /\ held.pc \in {"read", "write"}
    BY <1>2 DEF FindRevision, ReadCurrent
  <2>2. QED
    BY <2>1 DEF Idle
<1>3. ASSUME NEW s \in Requests,
             \/ FinishCreate(s) \/ FinishAutosave(s) \/ FinishDelete(s)
             \/ FinishRollback(s) \/ FailRequest(s)
      PROVE  s = r
  BY <1>3 DEF FinishCreate, FinishAutosave, FinishDelete, FinishRollback, FailRequest, End
<1>4. ~UNCHANGED apiVars
  BY DEF apiVars
<1>5. ~\E u \in Users : RemoveUser(u)
  BY DEF RemoveUser
<1>6. QED
  BY <1>1, <1>2, <1>3, <1>4, <1>5 DEF ApiNext

(* The write that ends a rollback is a save of what the request holds.      *)
LEMMA RollbackSaves ==
  ASSUME ApiTypeOK, [ApiNext]_apiVars, NEW r \in Requests, RolledBack(r)
  PROVE  /\ req[r].digest \in issued
         /\ digests[req[r].digest] # None
         /\ digests'[req[r].digest].state = req[r].state
         /\ digests'[req[r].digest].title = req[r].title
         /\ digests'[req[r].digest].type = req[r].type
<1> USE DEF ApiTypeOK
<1> DEFINE d == req[r].digest
           saved == SavedDigest(digests[d], req[r].title, req[r].type, req[r].state)
<1>1. req[r] \in [pc : {"write"}, user : Users, digest : DigestIds,
                  rev : RevisionIds, state : State, title : Titles,
                  type : KnownTypes \cup {UnknownType}, seen : Nat]
  BY RequestAt DEF RolledBack
<1>2. FinishRollback(r)
  BY EndedBy
  DEF RolledBack, Idle, FinishCreate, FinishAutosave, FinishDelete, FailRequest, vars
<1>3. d \in DigestIds /\ digests[d] # None /\ d \in issued
  BY <1>1, <1>2 DEF FinishRollback, AutosaveDigest, Owned, TypeOK
<1>4. digests'[d] = saved
  BY <1>2, <1>3 DEF FinishRollback, AutosaveDigest, TypeOK
<1>5. saved.state = req[r].state /\ saved.title = req[r].title /\ saved.type = req[r].type
  BY <1>1, DigestStoreAssumption DEF SavedDigest, KeptType
<1>6. QED
  BY <1>3, <1>4, <1>5

(* A rollback puts back the revision it was asked for, taken from its own   *)
(* digest, however many saves ran since the revision was read.              *)
THEOREM RollbackIsExact == ApiSpec => RollbackRestoresRevision
<1>1. ApiIInv /\ [ApiNext]_apiVars
        => [\A r \in Requests : RolledBack(r) =>
              \E x \in revisions :
                /\ <<x.digest, x.version>> = req[r].rev
                /\ x.digest = req[r].digest
                /\ digests'[x.digest].state = Normalize(x.state)]_apiVars
  <2>1. SUFFICES ASSUME ApiIInv, [ApiNext]_apiVars, NEW r \in Requests, RolledBack(r)
                 PROVE  \E x \in revisions :
                          /\ <<x.digest, x.version>> = req[r].rev
                          /\ x.digest = req[r].digest
                          /\ digests'[x.digest].state = Normalize(x.state)
    OBVIOUS
  <2>2. /\ digests[req[r].digest] # None
        /\ digests'[req[r].digest].state = req[r].state
    BY <2>1, RollbackSaves DEF ApiIInv
  <2>3. QED
    BY <2>1, <2>2 DEF ApiIInv, RequestsSound, Restores, RolledBack
<1>2. QED
  BY <1>1, ApiInvariance, PTL DEF ApiSpec, RollbackRestoresRevision

(* A rollback leaves title and type alone unless a save slipped in after it  *)
(* had read them.                                                           *)
THEOREM RollbackIsNarrow == ApiSpec => RollbackKeepsTitle
<1>1. ApiIInv /\ [ApiNext]_apiVars
        => [\A r \in Requests : RolledBack(r) =>
              LET d == req[r].digest
              IN  digests[d].version = req[r].seen =>
                    /\ digests'[d].title = digests[d].title
                    /\ digests'[d].type = digests[d].type]_apiVars
  <2>1. SUFFICES ASSUME ApiIInv, [ApiNext]_apiVars, NEW r \in Requests, RolledBack(r),
                        digests[req[r].digest].version = req[r].seen
                 PROVE  /\ digests'[req[r].digest].title = digests[req[r].digest].title
                        /\ digests'[req[r].digest].type = digests[req[r].digest].type
    OBVIOUS
  <2>2. /\ digests[req[r].digest] # None
        /\ digests'[req[r].digest].title = req[r].title
        /\ digests'[req[r].digest].type = req[r].type
    BY <2>1, RollbackSaves DEF ApiIInv
  <2>3. QED
    BY <2>1, <2>2 DEF ApiIInv, RequestsSound, SawCurrent, RolledBack
<1>2. QED
  BY <1>1, ApiInvariance, PTL DEF ApiSpec, RollbackKeepsTitle

(* No handler writes an image inline that it could store, a rollback to an   *)
(* old revision included.                                                   *)
THEOREM ImagesAreStored == ApiSpec => NoStorableImageInline
<1>1. ApiIInv /\ [ApiNext]_apiVars
        => [\A x \in revisions' \ revisions : ~Matched(x.state)]_apiVars
  <2>1. SUFFICES ASSUME ApiIInv, ApiNext, NEW x \in revisions' \ revisions
                 PROVE  ~Matched(x.state)
    BY DEF apiVars, vars
  <2>2. ASSUME NEW r \in Requests, FinishCreate(r)
        PROVE  req[r].pc = "create" /\ x.state = req[r].state
    BY <2>1, <2>2 DEF FinishCreate, CreateDigest
  <2>3. ASSUME NEW r \in Requests, FinishAutosave(r) \/ FinishRollback(r)
        PROVE  req[r].pc \in {"save", "write"} /\ x.state = req[r].state
    BY <2>1, <2>3 DEF FinishAutosave, FinishRollback, AutosaveDigest
  <2>4. ASSUME NEW r \in Requests, FinishDelete(r)
        PROVE  FALSE
    BY <2>1, <2>4 DEF FinishDelete, DeleteDigest, Drop
  <2>5. ASSUME NEW u \in Users, RemoveUser(u)
        PROVE  FALSE
    BY <2>1, <2>5 DEF RemoveUser, DeleteUser, Drop
  <2>6. ~UNCHANGED vars
    BY <2>1 DEF vars
  <2>7. PICK r \in Requests : req[r].pc \in {"create", "save", "write"}
                              /\ x.state = req[r].state
    BY <2>1, <2>2, <2>3, <2>4, <2>5, <2>6
    DEF ApiNext, FindRevision, ReadCurrent, FailRequest, BeginCreate, BeginAutosave,
        BeginDelete, BeginRollback, Begin
  <2>8. QED
    BY <2>1, <2>7 DEF ApiIInv, RequestsSound, StateIsStorable
<1>2. QED
  BY <1>1, ApiInvariance, PTL DEF ApiSpec, NoStorableImageInline

(* A digest changes only for a request of its owner, or goes with its owner, *)
(* even if the owner is deleted while the request runs.                     *)
THEOREM OnlyOwnersWrite == ApiSpec => OnlyOwnerChanges
<1>1. ApiTypeOK /\ [ApiNext]_apiVars
        => [\A d \in issued : digests'[d] # digests[d] =>
              \/ digests[d].owner \notin users'
              \/ \E r \in Requests : /\ req[r] # Idle /\ req'[r] = Idle
                                     /\ req[r].user = digests[d].owner]_apiVars
  <2>1. SUFFICES ASSUME ApiTypeOK, ApiNext, NEW d \in issued, digests'[d] # digests[d]
                 PROVE  \/ digests[d].owner \notin users'
                        \/ \E r \in Requests : /\ req[r] # Idle /\ req'[r] = Idle
                                               /\ req[r].user = digests[d].owner
    BY DEF apiVars, vars
  <2> USE DEF ApiTypeOK, TypeOK
  <2>2. ASSUME NEW u \in Users, RemoveUser(u)
        PROVE  digests[d].owner \notin users'
    BY <2>1, <2>2 DEF RemoveUser, DeleteUser, Drop, Owned
  <2>3. ASSUME NEW r \in Requests, FinishCreate(r)
        PROVE  FALSE
    BY <2>1, <2>3 DEF FinishCreate, CreateDigest, Fresh
  <2>4. ASSUME NEW r \in Requests,
               FinishAutosave(r) \/ FinishRollback(r) \/ FinishDelete(r)
        PROVE  /\ req[r] # Idle /\ req'[r] = Idle
               /\ req[r].user = digests[d].owner
    <3>1. req[r] # Idle /\ req'[r] = Idle
      <4>1. req[r].pc \in {"save", "write", "delete"} /\ End(r)
        BY <2>4 DEF FinishAutosave, FinishRollback, FinishDelete
      <4>2. req'[r] = Idle
        BY <2>1, <4>1 DEF End
      <4>3. QED
        BY <4>1, <4>2 DEF Idle
    <3>2. d = req[r].digest /\ Owned(req[r].user, req[r].digest)
      BY <2>1, <2>4 DEF FinishAutosave, FinishRollback, FinishDelete, AutosaveDigest,
           DeleteDigest, Drop
    <3>3. QED
      BY <3>1, <3>2 DEF Owned
  <2>5. ~UNCHANGED vars
    BY <2>1 DEF vars
  <2>6. QED
    BY <2>1, <2>2, <2>3, <2>4, <2>5
    DEF ApiNext, FindRevision, ReadCurrent, FailRequest, BeginCreate, BeginAutosave,
        BeginDelete, BeginRollback, Begin
<1>2. QED
  BY <1>1, ApiTypeCorrect, PTL DEF ApiSpec, OnlyOwnerChanges
=============================================================================
