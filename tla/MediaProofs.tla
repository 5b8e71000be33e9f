----------------------------- MODULE MediaProofs -----------------------------
(***************************************************************************)
(* Images, for any number of users, images, ids and overlapping requests,  *)
(* and for whatever may go wrong in the store the server runs with.        *)
(***************************************************************************)
EXTENDS Media, TLAPS

Writing == {"fill", "save", "remove"}
HoldsId == Writing \cup {"stat", "attach", "open"}

(* The image a request or a digest means by an id is served, or lost in one *)
(* of the known ways.                                                       *)
Served(m, content) ==
  \/ rows[m] # None /\ files[m] = content
  \/ Postgres /\ minted[m] \notin users
  \/ "reply" \in Faults /\ m \in refused

(* What a request relies on when it takes its next step.                   *)
InOrder(q) ==
  /\ q.pc \in HoldsId => minted[q.id] # None
  /\ q.pc \in {"stat", "attach"} => Served(q.id, q.content)
  /\ q.pc = "open" => files[q.id] \in {None, q.content}
  /\ q.pc \in Writing => minted[q.id] = q.user
  /\ q.pc \in {"fill", "save"} => rows[q.id] = None /\ q.id \notin refused
  /\ q.pc = "fill" => files[q.id] = Partial
  /\ q.pc = "save" => files[q.id] = q.content
  /\ q.pc = "remove" => rows[q.id] = None \/ q.id \in refused

RequestsInOrder == \A r \in Requests : InOrder(req[r])

(* newUUID: no two requests write the same file.                            *)
OneWriterPerFile ==
  \A r, s \in Requests :
    r # s /\ req[r].pc \in Writing /\ req[s].pc \in Writing => req[r].id # req[s].id

(* A row belongs to the user its id was made for; its file holds the image, *)
(* or is gone because an answer was lost.                                   *)
RowsInOrder ==
  \A m \in MediaIds : rows[m] # None =>
    /\ rows[m].owner = minted[m]
    /\ files[m] \in {None, rows[m].content}
    /\ m \notin refused => files[m] = rows[m].content
    /\ m \in refused => "reply" \in Faults

IdsInOrder ==
  /\ \A m \in refused : minted[m] # None
  /\ \A x \in refs : minted[x.id] # None /\ Served(x.id, x.content)

IInv ==
  /\ TypeOK
  /\ RequestsInOrder
  /\ OneWriterPerFile
  /\ RowsInOrder
  /\ IdsInOrder
  /\ OrphansAreOfDeletedUsers

(* An empty installation satisfies the invariant.                           *)
LEMMA InitIInv == Init => IInv
<1>1. SUFFICES ASSUME Init PROVE IInv
  OBVIOUS
<1>2. TypeOK
  BY <1>1 DEF Init, TypeOK, Request
<1>3. RequestsInOrder /\ OneWriterPerFile
  BY <1>1 DEF Init, RequestsInOrder, OneWriterPerFile, InOrder, Idle, HoldsId, Writing
<1>4. RowsInOrder /\ IdsInOrder /\ OrphansAreOfDeletedUsers
  BY <1>1 DEF Init, RowsInOrder, IdsInOrder, OrphansAreOfDeletedUsers
<1>5. QED
  BY <1>2, <1>3, <1>4 DEF IInv

-----------------------------------------------------------------------------
(* A request holds the record of the point its handler has reached.        *)
LEMMA RequestAt ==
  ASSUME NEW q \in Request
  PROVE  /\ q.pc \in {"find", "create"} =>
              q \in [pc : {"find", "create"}, via : {"inline", "upload"},
                     user : Users, content : Contents]
         /\ q.pc \in {"stat", "fill", "save", "remove", "attach"} =>
              q \in [pc : {"stat", "fill", "save", "remove", "attach"},
                     via : {"inline", "upload"}, user : Users,
                     content : Contents, id : MediaIds]
         /\ q.pc = "open" => q \in [pc : {"open"}, id : MediaIds, content : Contents]
BY DEF Request, Idle

(* Where a request that stores an image may go from one point to the next.  *)
LEMMA Moved ==
  ASSUME NEW q \in Request, q.pc \in {"stat", "fill", "save", "remove", "attach"},
         NEW pc \in {"stat", "fill", "save", "remove", "attach"}
  PROVE  /\ [q EXCEPT !.pc = pc] \in Request
         /\ [q EXCEPT !.pc = pc].pc = pc
         /\ [q EXCEPT !.pc = pc].id = q.id
         /\ [q EXCEPT !.pc = pc].user = q.user
         /\ [q EXCEPT !.pc = pc].content = q.content
<1>1. q \in [pc : {"stat", "fill", "save", "remove", "attach"},
             via : {"inline", "upload"}, user : Users, content : Contents, id : MediaIds]
  BY RequestAt
<1>2. QED
  BY <1>1 DEF Request

LEMMA IdleInOrder == Idle \in Request /\ Idle.pc = "idle" /\ InOrder(Idle)'
BY DEF Request, Idle, InOrder, HoldsId, Writing

LEMMA OneMoves ==
  ASSUME TypeOK, NEW r \in Requests, NEW held \in Request, Become(r, held)
  PROVE  /\ req' \in [Requests -> Request]
         /\ req'[r] = held
         /\ \A s \in Requests \ {r} : req'[s] = req[s]
BY DEF TypeOK, Become

(* The files a request may write are the ones made for it.                  *)
LEMMA OneWriterStays ==
  ASSUME IInv, NEW r \in Requests, NEW held \in Request, Become(r, held),
         held.pc \in Writing =>
           \/ req[r].pc \in Writing /\ held.id = req[r].id
           \/ \A s \in Requests : req[s].pc \in Writing => req[s].id # held.id
  PROVE  OneWriterPerFile'
<1>1. /\ req'[r] = held
      /\ \A s \in Requests \ {r} : req'[s] = req[s]
  BY OneMoves DEF IInv
<1>2. QED
  BY <1>1 DEF IInv, OneWriterPerFile

(* A step that moves one request on, makes or changes no file and no row, and *)
(* leaves no file behind, keeps the invariant.                               *)
LEMMA QuietStep ==
  ASSUME IInv, UNCHANGED <<setting, users, rows, files, minted, refused, refs>>,
         NEW r \in Requests, NEW held \in Request, Become(r, held), InOrder(held),
         held.pc \in Writing => req[r].pc \in Writing /\ held.id = req[r].id,
         req[r].pc \in Writing => "disk" \in Faults
  PROVE  IInv'
<1>1. /\ req' \in [Requests -> Request]
      /\ req'[r] = held
      /\ \A s \in Requests \ {r} : req'[s] = req[s]
  BY OneMoves DEF IInv
<1>2. TypeOK'
  BY <1>1 DEF IInv, TypeOK
<1>3. RequestsInOrder'
  BY <1>1 DEF IInv, RequestsInOrder, InOrder, Served, Postgres, Faults
<1>4. OneWriterPerFile'
  BY OneWriterStays
<1>5. RowsInOrder' /\ IdsInOrder'
  BY DEF IInv, RowsInOrder, IdsInOrder, Served, Postgres, Faults
<1>6. OrphansAreOfDeletedUsers'
  BY <1>1 DEF IInv, OrphansAreOfDeletedUsers, Faults, Writing
<1>7. QED
  BY <1>2, <1>3, <1>4, <1>5, <1>6 DEF IInv

(* A row that can be found leads to a file with its image, or to none because *)
(* an answer was lost.                                                       *)
LEMMA RowsAreServed ==
  ASSUME IInv, NEW m \in MediaIds, rows[m] # None
  PROVE  minted[m] # None /\ Served(m, rows[m].content)
BY DEF IInv, TypeOK, RowsInOrder, Served

LEMMA StartIInv ==
  ASSUME IInv, NEW r \in Requests,
         \/ \E u \in Users, content \in Contents :
              BeginInline(r, u, content) \/ BeginUpload(r, u, content)
         \/ \E m \in MediaIds : GetMedia(r, m)
         \/ OpenFile(r) \/ FailRequest(r)
  PROVE  IInv'
<1>1. ASSUME NEW u \in Users, NEW content \in Contents,
             BeginInline(r, u, content) \/ BeginUpload(r, u, content)
      PROVE  IInv'
  <2>1. PICK held \in [pc : {"find", "create"}, via : {"inline", "upload"},
                       user : Users, content : Contents] :
             /\ Become(r, held) /\ req[r] = Idle
             /\ UNCHANGED <<setting, users, rows, files, minted, refused, refs>>
    BY <1>1 DEF BeginInline, BeginUpload
  <2>2. held \in Request /\ held.pc \notin HoldsId /\ InOrder(held)
    BY DEF Request, HoldsId, Writing, InOrder
  <2>3. QED
    BY <2>1, <2>2, QuietStep DEF HoldsId, Writing, Idle
<1>2. ASSUME NEW m \in MediaIds, GetMedia(r, m) PROVE IInv'
  <2> DEFINE held == [pc |-> "open", id |-> m, content |-> rows[m].content]
  <2>1. rows[m] \in Row
    BY <1>2 DEF GetMedia, IInv, TypeOK
  <2>2. held \in Request
    BY <2>1 DEF Request, Row
  <2>3. minted[m] # None /\ files[m] \in {None, rows[m].content}
    BY <1>2, RowsAreServed DEF GetMedia, IInv, RowsInOrder
  <2>4. InOrder(held)
    BY <2>3 DEF InOrder, Writing
  <2>5. QED
    BY <1>2, <2>2, <2>4, QuietStep DEF GetMedia, Writing, Idle
<1>3. ASSUME OpenFile(r) \/ FailRequest(r) PROVE IInv'
  <2>1. InOrder(Idle)
    BY DEF Idle, InOrder, HoldsId, Writing
  <2>2. QED
    BY <1>3, <2>1, IdleInOrder, QuietStep DEF OpenFile, FailRequest, End, Writing
<1>4. QED
  BY <1>1, <1>2, <1>3

LEMMA LookupIInv ==
  ASSUME IInv, NEW r \in Requests, FindMediaBySHA(r) \/ StatFile(r) \/ WriteFails(r)
  PROVE  IInv'
<1>1. ASSUME FindMediaBySHA(r) PROVE IInv'
  <2>1. req[r] \in [pc : {"find", "create"}, via : {"inline", "upload"},
                    user : Users, content : Contents]
    BY <1>1, RequestAt DEF FindMediaBySHA, IInv, TypeOK
  <2>2. ASSUME NEW m \in MediaIds, SameImage(m, req[r].content), Found(r, m)
        PROVE  IInv'
    <3> DEFINE held == [pc |-> "stat", via |-> req[r].via, user |-> req[r].user,
                        content |-> req[r].content, id |-> m]
    <3>1. held \in Request
      BY <2>1 DEF Request
    <3>2. InOrder(held)
      BY <2>2, RowsAreServed DEF SameImage, InOrder, Writing
    <3>3. QED
      BY <1>1, <2>2, <3>1, <3>2, QuietStep DEF FindMediaBySHA, Found, With, Writing
  <2>3. ASSUME Goto(r, "create") PROVE IInv'
    <3> DEFINE held == [req[r] EXCEPT !.pc = "create"]
    <3>1. held \in Request /\ held.pc = "create"
      BY <2>1 DEF Request
    <3>2. InOrder(held)
      BY <3>1 DEF InOrder, HoldsId, Writing
    <3>3. Become(r, held)
      BY <2>3 DEF Goto, Become
    <3> HIDE DEF held
    <3>4. QED
      BY <1>1, <3>1, <3>2, <3>3, QuietStep DEF FindMediaBySHA, Writing
  <2>4. QED
    BY <1>1, <2>2, <2>3 DEF FindMediaBySHA
<1>2. ASSUME StatFile(r) PROVE IInv'
  <2>1. req[r] \in [pc : {"stat", "fill", "save", "remove", "attach"},
                    via : {"inline", "upload"}, user : Users,
                    content : Contents, id : MediaIds]
    BY <1>2, RequestAt DEF StatFile, IInv, TypeOK
  <2>2. InOrder(req[r]) /\ req[r] \in Request
    BY DEF IInv, RequestsInOrder, TypeOK
  <2>3. ASSUME Goto(r, "attach") PROVE IInv'
    <3> DEFINE held == [req[r] EXCEPT !.pc = "attach"]
    <3>1. /\ held \in Request /\ held.pc = "attach"
          /\ held.id = req[r].id /\ held.content = req[r].content
      BY <1>2, <2>2, Moved DEF StatFile
    <3>2. Become(r, held)
      BY <2>3 DEF Goto, Become
    <3> HIDE DEF held
    <3>3. InOrder(held)
      BY <1>2, <2>2, <3>1 DEF StatFile, InOrder, HoldsId, Writing
    <3>4. QED
      BY <1>2, <3>1, <3>2, <3>3, QuietStep DEF StatFile, Writing
  <2>4. ASSUME Become(r, [pc |-> "create", via |-> req[r].via, user |-> req[r].user,
                          content |-> req[r].content])
        PROVE  IInv'
    <3> DEFINE held == [pc |-> "create", via |-> req[r].via, user |-> req[r].user,
                        content |-> req[r].content]
    <3>1. held \in Request
      BY <2>1 DEF Request
    <3>2. InOrder(held)
      BY DEF InOrder, HoldsId, Writing
    <3>3. QED
      BY <1>2, <2>4, <3>1, <3>2, QuietStep DEF StatFile, Writing
  <2>5. QED
    BY <1>2, <2>3, <2>4 DEF StatFile
<1>3. ASSUME WriteFails(r) PROVE IInv'
  <2>1. InOrder(req[r]) /\ req[r] \in Request
    BY DEF IInv, RequestsInOrder, TypeOK
  <2>2. ASSUME Goto(r, "remove") PROVE IInv'
    <3> DEFINE held == [req[r] EXCEPT !.pc = "remove"]
    <3>1. /\ held \in Request /\ held.pc = "remove"
          /\ held.id = req[r].id /\ held.user = req[r].user
      BY <1>3, <2>1, Moved DEF WriteFails
    <3>2. Become(r, held)
      BY <2>2 DEF Goto, Become
    <3> HIDE DEF held
    <3>3. InOrder(held)
      BY <1>3, <2>1, <3>1 DEF WriteFails, InOrder, HoldsId, Writing
    <3>4. QED
      BY <1>3, <3>1, <3>2, <3>3, QuietStep DEF WriteFails, Writing
  <2>3. InOrder(Idle)
    BY DEF Idle, InOrder, HoldsId, Writing
  <2>4. ASSUME End(r) PROVE IInv'
    BY <1>3, <2>3, <2>4, IdleInOrder, QuietStep DEF WriteFails, End, Writing
  <2>5. QED
    BY <1>3, <2>2, <2>4 DEF WriteFails
<1>4. QED
  BY <1>1, <1>2, <1>3

-----------------------------------------------------------------------------
(* A new file is made under an id that nothing refers to yet.               *)
LEMMA CreateIInv ==
  ASSUME IInv, NEW r \in Requests, CreateFile(r)
  PROVE  IInv'
<1> USE DEF IInv
<1>1. req[r] \in [pc : {"find", "create"}, via : {"inline", "upload"},
                  user : Users, content : Contents]
  BY RequestAt DEF CreateFile, TypeOK
<1>2. PICK m \in MediaIds :
        /\ minted[m] = None
        /\ minted' = [minted EXCEPT ![m] = req[r].user]
        /\ files' = [files EXCEPT ![m] = Partial]
        /\ With(r, "fill", m)
  BY DEF CreateFile
<1>3. UNCHANGED <<setting, users, rows, refused, refs>>
  BY DEF CreateFile
<1> DEFINE held == [pc |-> "fill", via |-> req[r].via, user |-> req[r].user,
                    content |-> req[r].content, id |-> m]
<1>4. /\ held \in Request /\ held.pc = "fill" /\ held.id = m
      /\ held.user = req[r].user /\ req[r].user \in Users
  BY <1>1 DEF Request
<1>5. Become(r, held)
  BY <1>2 DEF With
<1> HIDE DEF held
<1>6. /\ req' \in [Requests -> Request]
      /\ req'[r] = held
      /\ \A s \in Requests \ {r} : req'[s] = req[s]
  BY <1>4, <1>5, OneMoves
<1>7. /\ rows[m] = None /\ files[m] = None /\ m \notin refused
      /\ minted'[m] = req[r].user /\ files'[m] = Partial /\ req[r].user # None
      /\ \A x \in MediaIds \ {m} : minted'[x] = minted[x] /\ files'[x] = files[x]
  BY <1>2, <1>4, MediaAssumption DEF TypeOK, IdsInOrder
<1>8. \A q \in Request : InOrder(q) /\ q.pc \in HoldsId => q.id \in MediaIds \ {m}
  <2>1. SUFFICES ASSUME NEW q \in Request, InOrder(q), q.pc \in HoldsId
                 PROVE  q.id \in MediaIds \ {m}
    OBVIOUS
  <2>2. q.id \in MediaIds
    BY <2>1, RequestAt DEF HoldsId, Writing
  <2>3. QED
    BY <1>2, <2>1, <2>2 DEF InOrder
<1>9. TypeOK'
  <2>1. minted' \in [MediaIds -> Users \cup {None}]
    BY <1>2, <1>4 DEF TypeOK
  <2>2. files' \in [MediaIds -> Contents \cup {Partial, None}]
    BY <1>2 DEF TypeOK
  <2>3. \A x \in MediaIds : minted'[x] = None => rows'[x] = None /\ files'[x] = None
    BY <1>3, <1>7 DEF TypeOK
  <2>4. QED
    BY <1>3, <1>6, <2>1, <2>2, <2>3 DEF TypeOK
<1>10. RequestsInOrder'
  <2>1. InOrder(req[r])'
    BY <1>3, <1>4, <1>6, <1>7 DEF InOrder, Writing, HoldsId
  <2>2. ASSUME NEW s \in Requests \ {r} PROVE InOrder(req[s])'
    <3>1. InOrder(req[s]) /\ req[s] \in Request
      BY DEF RequestsInOrder, TypeOK
    <3>2. CASE req[s].pc \notin HoldsId
      BY <1>6, <3>2 DEF InOrder, HoldsId, Writing
    <3>3. CASE req[s].pc \in HoldsId
      <4>1. req[s].id \in MediaIds \ {m}
        BY <1>8, <3>1, <3>3
      <4>2. /\ minted'[req[s].id] = minted[req[s].id]
            /\ files'[req[s].id] = files[req[s].id]
        BY <1>7, <4>1
      <4>3. req'[s] = req[s]
        BY <1>6
      <4>4. QED
        BY <1>3, <3>1, <4>2, <4>3 DEF InOrder, Served, Postgres, Faults
    <3>4. QED
      BY <3>2, <3>3
  <2>3. QED
    BY <2>1, <2>2 DEF RequestsInOrder
<1>11. OneWriterPerFile'
  <2>1. \A s \in Requests : req[s].pc \in Writing => req[s].id # held.id
    BY <1>4, <1>8 DEF RequestsInOrder, TypeOK, HoldsId
  <2>2. QED
    BY <1>4, <1>5, <2>1, OneWriterStays
<1>12. RowsInOrder'
  BY <1>3, <1>7 DEF RowsInOrder, Faults
<1>13. IdsInOrder'
  <2>1. \A x \in refs : x.id \in MediaIds \ {m}
    BY <1>2 DEF IdsInOrder, TypeOK, Ref
  <2>2. \A x \in refused : x \in MediaIds \ {m}
    BY <1>7 DEF TypeOK
  <2>3. QED
    BY <1>3, <1>7, <2>1, <2>2 DEF IdsInOrder, Served, Postgres, Faults
<1>14. OrphansAreOfDeletedUsers'
  <2>1. SUFFICES ASSUME Faults \cap {"crash", "disk"} = {}, NEW x \in MediaIds,
                        files'[x] # None, rows'[x] = None
                 PROVE  \/ minted'[x] \notin users'
                        \/ \E s \in Requests : req'[s].pc \in Writing /\ req'[s].id = x
    BY <1>3 DEF OrphansAreOfDeletedUsers, Faults, Writing
  <2>2. CASE x = m
    BY <1>4, <1>6, <2>2 DEF Writing
  <2>3. CASE x # m
    <3>1. \/ minted[x] \notin users
          \/ \E s \in Requests : req[s].pc \in Writing /\ req[s].id = x
      BY <1>3, <1>7, <2>1, <2>3 DEF OrphansAreOfDeletedUsers, Writing
    <3>2. req[r].pc \notin Writing
      BY DEF CreateFile, Writing
    <3>3. QED
      BY <1>3, <1>6, <1>7, <2>3, <3>1, <3>2
  <2>4. QED
    BY <2>2, <2>3
<1>15. QED
  BY <1>9, <1>10, <1>11, <1>12, <1>13, <1>14

(* The bytes go to a file only this request writes and nothing shows yet.   *)
LEMMA FillIInv ==
  ASSUME IInv, NEW r \in Requests, FillFile(r)
  PROVE  IInv'
<1> USE DEF IInv
<1> DEFINE m == req[r].id
           held == [req[r] EXCEPT !.pc = "save"]
<1>1. req[r] \in [pc : {"stat", "fill", "save", "remove", "attach"},
                  via : {"inline", "upload"}, user : Users,
                  content : Contents, id : MediaIds]
  BY RequestAt DEF FillFile, TypeOK
<1>2. /\ held \in Request /\ held.pc = "save" /\ held.id = m
      /\ held.user = req[r].user /\ held.content = req[r].content
  BY Moved DEF FillFile, TypeOK
<1>3. Become(r, held)
  BY DEF FillFile, Goto, Become
<1> HIDE DEF held
<1>4. /\ req' \in [Requests -> Request]
      /\ req'[r] = held
      /\ \A s \in Requests \ {r} : req'[s] = req[s]
  BY <1>2, <1>3, OneMoves
<1>5. /\ UNCHANGED <<setting, users, rows, minted, refused, refs>>
      /\ files' = [files EXCEPT ![m] = req[r].content]
      /\ m \in MediaIds /\ req[r].content \in Contents /\ req[r].pc = "fill"
  BY <1>1 DEF FillFile
<1>6. /\ rows[m] = None /\ files[m] = Partial /\ m \notin refused
      /\ minted[m] # None /\ minted[m] = req[r].user
  BY <1>5 DEF RequestsInOrder, InOrder, HoldsId, Writing
<1>7. /\ files'[m] = req[r].content
      /\ \A x \in MediaIds \ {m} : files'[x] = files[x]
  BY <1>5 DEF TypeOK
<1>8. TypeOK'
  BY <1>4, <1>5, <1>6 DEF TypeOK
<1>9. RequestsInOrder'
  <2>1. InOrder(req[r])'
    BY <1>2, <1>4, <1>5, <1>6, <1>7 DEF InOrder, Writing, HoldsId
  <2>2. ASSUME NEW s \in Requests \ {r} PROVE InOrder(req[s])'
    <3>1. InOrder(req[s]) /\ req[s] \in Request /\ req'[s] = req[s]
      BY <1>4 DEF RequestsInOrder, TypeOK
    <3>2. CASE req[s].pc \in {"stat", "attach"}
      BY <1>5, <1>6, <1>7, <3>1, <3>2, RequestAt
      DEF InOrder, Served, Postgres, Faults, Writing
    <3>3. CASE req[s].pc = "open"
      <4>1. req[s].id \in MediaIds /\ req[s].content \in Contents
        BY <3>1, <3>3, RequestAt
      <4>2. req[s].id # m
        BY <1>6, <3>1, <3>3, <4>1, MediaAssumption DEF InOrder
      <4>3. QED
        BY <1>5, <1>7, <3>1, <3>3, <4>1, <4>2 DEF InOrder, Writing
    <3>4. CASE req[s].pc \in Writing
      <4>1. req[s].id \in MediaIds /\ req[s].id # m
        BY <1>5, <3>1, <3>4, RequestAt DEF OneWriterPerFile, Writing
      <4>2. QED
        BY <1>5, <1>7, <3>1, <3>4, <4>1 DEF InOrder, Writing
    <3>5. CASE req[s].pc \notin HoldsId
      BY <3>1, <3>5 DEF InOrder, HoldsId, Writing
    <3>6. QED
      BY <3>2, <3>3, <3>4, <3>5 DEF HoldsId
  <2>3. QED
    BY <2>1, <2>2 DEF RequestsInOrder
<1>10. OneWriterPerFile'
  BY <1>2, <1>3, <1>5, OneWriterStays DEF Writing
<1>11. RowsInOrder'
  BY <1>5, <1>6, <1>7 DEF RowsInOrder, Faults
<1>12. IdsInOrder'
  <2>1. \A x \in refs : x.id \in MediaIds
    BY DEF TypeOK, Ref
  <2>2. QED
    BY <1>5, <1>6, <1>7, <2>1 DEF IdsInOrder, Served, Postgres, Faults
<1>13. OrphansAreOfDeletedUsers'
  <2>1. SUFFICES ASSUME Faults \cap {"crash", "disk"} = {}, NEW x \in MediaIds,
                        files'[x] # None, rows'[x] = None
                 PROVE  \/ minted'[x] \notin users'
                        \/ \E s \in Requests : req'[s].pc \in Writing /\ req'[s].id = x
    BY <1>5 DEF OrphansAreOfDeletedUsers, Faults, Writing
  <2>2. CASE x = m
    BY <1>2, <1>4, <2>2 DEF Writing
  <2>3. CASE x # m
    BY <1>4, <1>5, <1>7, <2>1, <2>3 DEF OrphansAreOfDeletedUsers, Writing
  <2>4. QED
    BY <2>2, <2>3
<1>14. QED
  BY <1>8, <1>9, <1>10, <1>11, <1>12, <1>13

(* The row of a complete file is saved, or its save answers with an error.  *)
LEMMA SaveIInv ==
  ASSUME IInv, NEW r \in Requests, SaveMedia(r) \/ SaveMediaFails(r)
  PROVE  IInv'
<1> USE DEF IInv
<1> DEFINE m == req[r].id
<1>1. req[r] \in [pc : {"stat", "fill", "save", "remove", "attach"},
                  via : {"inline", "upload"}, user : Users,
                  content : Contents, id : MediaIds]
  BY RequestAt DEF SaveMedia, SaveMediaFails, TypeOK
<1>2. PICK pc \in {"attach", "remove"} :
        /\ Goto(r, pc)
        /\ pc = "attach" =>
             rows' = [rows EXCEPT ![m] = RowOf(r)] /\ refused' = refused
        /\ pc = "remove" => refused' = refused \cup {m}
        /\ pc = "remove" =>
             \/ rows' = rows
             \/ rows' = [rows EXCEPT ![m] = RowOf(r)] /\ "reply" \in Faults
  BY DEF SaveMedia, SaveMediaFails
<1> DEFINE held == [req[r] EXCEPT !.pc = pc]
<1>3. /\ held \in Request /\ held.pc = pc /\ held.id = m
      /\ held.user = req[r].user /\ held.content = req[r].content
  BY <1>1 DEF Request
<1>4. Become(r, held)
  BY <1>2 DEF Goto, Become
<1> HIDE DEF held
<1>5. /\ req' \in [Requests -> Request]
      /\ req'[r] = held
      /\ \A s \in Requests \ {r} : req'[s] = req[s]
  BY <1>3, <1>4, OneMoves
<1>6. /\ UNCHANGED <<setting, users, files, minted, refs>>
      /\ m \in MediaIds /\ req[r].pc = "save"
      /\ RowOf(r) \in Row /\ RowOf(r) # None
      /\ RowOf(r).owner = req[r].user /\ RowOf(r).content = req[r].content
  BY <1>1, MediaAssumption DEF SaveMedia, SaveMediaFails, RowOf, Row
<1>7. /\ rows[m] = None /\ files[m] = req[r].content /\ m \notin refused
      /\ minted[m] # None /\ minted[m] = req[r].user
  BY <1>6 DEF RequestsInOrder, InOrder, HoldsId, Writing
<1>8. /\ \/ rows'[m] = RowOf(r)
         \/ rows'[m] = None /\ pc = "remove"
      /\ \A x \in MediaIds \ {m} : rows'[x] = rows[x]
      /\ refused \subseteq refused' /\ \A x \in refused' : x # m => x \in refused
  BY <1>2, <1>6, <1>7 DEF TypeOK
<1>9. \A content : \A x \in MediaIds : Served(x, content) => Served(x, content)'
  BY <1>6, <1>7, <1>8 DEF Served, Postgres, Faults
<1>10. TypeOK'
  <2>1. rows' \in [MediaIds -> Row \cup {None}] /\ refused' \subseteq MediaIds
    BY <1>2, <1>6 DEF TypeOK
  <2>2. \A x \in MediaIds : minted'[x] = None => rows'[x] = None /\ files'[x] = None
    BY <1>6, <1>7, <1>8 DEF TypeOK
  <2>3. QED
    BY <1>5, <1>6, <2>1, <2>2 DEF TypeOK
<1>11. RequestsInOrder'
  <2>1. InOrder(req[r])'
    <3>1. CASE pc = "attach"
      <4>1. rows'[m] # None
        BY <1>6, <1>8, <3>1
      <4>2. QED
        BY <1>3, <1>5, <1>6, <1>7, <3>1, <4>1 DEF InOrder, Served, Writing
    <3>2. CASE pc = "remove"
      BY <1>2, <1>3, <1>5, <1>6, <1>7, <3>2 DEF InOrder, Writing
    <3>3. QED
      BY <3>1, <3>2
  <2>2. ASSUME NEW s \in Requests \ {r} PROVE InOrder(req[s])'
    <3>1. InOrder(req[s]) /\ req[s] \in Request /\ req'[s] = req[s]
      BY <1>5 DEF RequestsInOrder, TypeOK
    <3>2. CASE req[s].pc \in {"stat", "attach"}
      BY <1>6, <1>9, <3>1, <3>2, RequestAt DEF InOrder, Writing, HoldsId
    <3>3. CASE req[s].pc = "open"
      BY <1>6, <3>1, <3>3 DEF InOrder, Writing, HoldsId
    <3>4. CASE req[s].pc \in Writing
      <4>1. req[s].id \in MediaIds /\ req[s].id # m
        BY <1>6, <3>1, <3>4, RequestAt DEF OneWriterPerFile, Writing
      <4>2. QED
        BY <1>6, <1>8, <3>1, <3>4, <4>1 DEF InOrder, Writing
    <3>5. CASE req[s].pc \notin HoldsId
      BY <3>1, <3>5 DEF InOrder, HoldsId, Writing
    <3>6. QED
      BY <3>2, <3>3, <3>4, <3>5 DEF HoldsId
  <2>3. QED
    BY <2>1, <2>2 DEF RequestsInOrder
<1>12. OneWriterPerFile'
  BY <1>3, <1>4, <1>6, OneWriterStays DEF Writing
<1>13. RowsInOrder'
  <2>1. SUFFICES ASSUME NEW x \in MediaIds, rows'[x] # None
                 PROVE  /\ rows'[x].owner = minted'[x]
                        /\ files'[x] \in {None, rows'[x].content}
                        /\ x \notin refused' => files'[x] = rows'[x].content
                        /\ x \in refused' => "reply" \in Faults
    BY <1>6 DEF RowsInOrder, Faults
  <2>2. CASE x = m
    BY <1>2, <1>6, <1>7, <1>8, <2>1, <2>2
  <2>3. CASE x # m
    BY <1>6, <1>8, <2>1, <2>3 DEF RowsInOrder
  <2>4. QED
    BY <2>2, <2>3
<1>14. IdsInOrder'
  <2>1. \A x \in refs : x.id \in MediaIds
    BY DEF TypeOK, Ref
  <2>2. \A x \in refs' : minted'[x.id] # None /\ Served(x.id, x.content)'
    BY <1>6, <1>9, <2>1 DEF IdsInOrder
  <2>3. \A x \in refused' : minted'[x] # None
    BY <1>6, <1>7, <1>8 DEF IdsInOrder
  <2>4. QED
    BY <2>2, <2>3 DEF IdsInOrder
<1>15. OrphansAreOfDeletedUsers'
  <2>1. SUFFICES ASSUME Faults \cap {"crash", "disk"} = {}, NEW x \in MediaIds,
                        files'[x] # None, rows'[x] = None
                 PROVE  \/ minted'[x] \notin users'
                        \/ \E s \in Requests : req'[s].pc \in Writing /\ req'[s].id = x
    BY <1>6 DEF OrphansAreOfDeletedUsers, Faults, Writing
  <2>2. CASE x = m
    BY <1>3, <1>5, <1>6, <1>8, <2>1, <2>2 DEF Writing
  <2>3. CASE x # m
    BY <1>5, <1>6, <1>8, <2>1, <2>3 DEF OrphansAreOfDeletedUsers, Writing
  <2>4. QED
    BY <2>2, <2>3
<1>16. QED
  BY <1>10, <1>11, <1>12, <1>13, <1>14, <1>15

(* The file of an image that was never answered for is removed, or stays.   *)
LEMMA RemoveIInv ==
  ASSUME IInv, NEW r \in Requests, RemoveFile(r)
  PROVE  IInv'
<1> USE DEF IInv
<1> DEFINE m == req[r].id
<1>1. req[r] \in [pc : {"stat", "fill", "save", "remove", "attach"},
                  via : {"inline", "upload"}, user : Users,
                  content : Contents, id : MediaIds]
  BY RequestAt DEF RemoveFile, TypeOK
<1>2. Become(r, Idle)
  BY DEF RemoveFile, End
<1>3. /\ req' \in [Requests -> Request]
      /\ req'[r] = Idle
      /\ \A s \in Requests \ {r} : req'[s] = req[s]
  BY <1>2, IdleInOrder, OneMoves
<1>4. /\ UNCHANGED <<setting, users, rows, minted, refused, refs>>
      /\ m \in MediaIds /\ req[r].pc = "remove"
      /\ \/ files' = [files EXCEPT ![m] = None]
         \/ files' = files /\ "disk" \in Faults
  BY <1>1 DEF RemoveFile
<1>5. rows[m] = None \/ m \in refused
  BY <1>4 DEF RequestsInOrder, InOrder
<1>6. /\ \/ files'[m] = None
         \/ files'[m] = files[m] /\ "disk" \in Faults
      /\ \A x \in MediaIds \ {m} : files'[x] = files[x]
  BY <1>4 DEF TypeOK
<1>7. \A content : \A x \in MediaIds : Served(x, content) => Served(x, content)'
  <2>1. rows[m] # None => m \in refused /\ "reply" \in Faults
    BY <1>4, <1>5 DEF RowsInOrder
  <2>2. QED
    BY <1>4, <1>6, <2>1 DEF Served, Postgres, Faults
<1>8. TypeOK'
  BY <1>3, <1>4 DEF TypeOK
<1>9. RequestsInOrder'
  <2>1. InOrder(req[r])'
    BY <1>3 DEF InOrder, Idle, HoldsId, Writing
  <2>2. ASSUME NEW s \in Requests \ {r} PROVE InOrder(req[s])'
    <3>1. InOrder(req[s]) /\ req[s] \in Request /\ req'[s] = req[s]
      BY <1>3 DEF RequestsInOrder, TypeOK
    <3>2. CASE req[s].pc \in {"stat", "attach"}
      BY <1>4, <1>7, <3>1, <3>2, RequestAt DEF InOrder, Writing, HoldsId
    <3>3. CASE req[s].pc = "open"
      BY <1>4, <1>6, <3>1, <3>3, RequestAt DEF InOrder, Writing, HoldsId
    <3>4. CASE req[s].pc \in Writing
      <4>1. req[s].id \in MediaIds /\ req[s].id # m
        BY <1>4, <3>1, <3>4, RequestAt DEF OneWriterPerFile, Writing
      <4>2. QED
        BY <1>4, <1>6, <3>1, <3>4, <4>1 DEF InOrder, Writing
    <3>5. CASE req[s].pc \notin HoldsId
      BY <3>1, <3>5 DEF InOrder, HoldsId, Writing
    <3>6. QED
      BY <3>2, <3>3, <3>4, <3>5 DEF HoldsId
  <2>3. QED
    BY <2>1, <2>2 DEF RequestsInOrder
<1>10. OneWriterPerFile'
  BY <1>2, IdleInOrder, OneWriterStays DEF Writing
<1>11. RowsInOrder'
  BY <1>4, <1>5, <1>6 DEF RowsInOrder, Faults
<1>12. IdsInOrder'
  <2>1. \A x \in refs : x.id \in MediaIds
    BY DEF TypeOK, Ref
  <2>2. QED
    BY <1>4, <1>7, <2>1 DEF IdsInOrder
<1>13. OrphansAreOfDeletedUsers'
  <2>1. SUFFICES ASSUME Faults \cap {"crash", "disk"} = {}, NEW x \in MediaIds,
                        files'[x] # None, rows'[x] = None
                 PROVE  \/ minted'[x] \notin users'
                        \/ \E s \in Requests : req'[s].pc \in Writing /\ req'[s].id = x
    BY <1>4 DEF OrphansAreOfDeletedUsers, Faults, Writing
  <2>2. x # m
    BY <1>6, <2>1
  <2>3. QED
    BY <1>3, <1>4, <1>6, <2>1, <2>2 DEF OrphansAreOfDeletedUsers, Writing
<1>14. QED
  BY <1>8, <1>9, <1>10, <1>11, <1>12, <1>13

-----------------------------------------------------------------------------
(* A step that writes no file and moves no request that writes one, keeps the *)
(* invariant if the digests still mean images that are served.               *)
LEMMA RefsStep ==
  ASSUME IInv, UNCHANGED <<setting, users, rows, files, minted, refused>>,
         refs' \subseteq Ref,
         \A x \in refs' \ refs : minted[x.id] # None /\ Served(x.id, x.content),
         req' \in [Requests -> Request],
         \A s \in Requests : req'[s] = req[s] \/ req'[s] = Idle,
         \A s \in Requests : req[s].pc \in Writing => req'[s] = req[s]
  PROVE  IInv'
<1>1. TypeOK'
  BY DEF IInv, TypeOK
<1>2. RequestsInOrder'
  <2>1. SUFFICES ASSUME NEW s \in Requests PROVE InOrder(req[s])'
    BY DEF RequestsInOrder
  <2>2. CASE req'[s] = Idle
    BY <2>2 DEF InOrder, Idle, HoldsId, Writing
  <2>3. CASE req'[s] = req[s]
    BY <2>3 DEF IInv, RequestsInOrder, InOrder, Served, Postgres, Faults
  <2>4. QED
    BY <2>2, <2>3
<1>3. OneWriterPerFile'
  BY DEF IInv, OneWriterPerFile, Idle, Writing
<1>4. RowsInOrder' /\ IdsInOrder'
  BY DEF IInv, RowsInOrder, IdsInOrder, Served, Postgres, Faults
<1>5. OrphansAreOfDeletedUsers'
  BY DEF IInv, OrphansAreOfDeletedUsers, Faults, Writing
<1>6. QED
  BY <1>1, <1>2, <1>3, <1>4, <1>5 DEF IInv

LEMMA AttachIInv ==
  ASSUME IInv, NEW r \in Requests, Attach(r)
  PROVE  IInv'
<1>1. req[r] \in [pc : {"stat", "fill", "save", "remove", "attach"},
                  via : {"inline", "upload"}, user : Users,
                  content : Contents, id : MediaIds]
  BY RequestAt DEF Attach, IInv, TypeOK
<1> DEFINE new == [user |-> req[r].user, id |-> req[r].id, content |-> req[r].content]
<1>2. new \in Ref
  BY <1>1 DEF Ref
<1>3. minted[new.id] # None /\ Served(new.id, new.content)
  BY DEF Attach, IInv, RequestsInOrder, InOrder, HoldsId
<1>4. /\ req' \in [Requests -> Request]
      /\ req'[r] = Idle
      /\ \A s \in Requests \ {r} : req'[s] = req[s]
  BY IdleInOrder, OneMoves DEF Attach, End, IInv
<1>5. refs' = refs \cup {new}
  BY DEF Attach
<1> HIDE DEF new
<1>6. UNCHANGED <<setting, users, rows, files, minted, refused>>
  BY DEF Attach
<1>7. req[r].pc \notin Writing
  BY DEF Attach, Writing
<1>8. refs' \subseteq Ref
  BY <1>2, <1>5 DEF IInv, TypeOK
<1>9. QED
  BY <1>3, <1>4, <1>5, <1>6, <1>7, <1>8, RefsStep

LEMMA DropIInv ==
  ASSUME IInv, NEW u \in Users, DropRefs(u)
  PROVE  IInv'
BY RefsStep DEF DropRefs, IInv, TypeOK

(* The process stops: half-written files stay, but no row and no digest means *)
(* them.                                                                     *)
LEMMA CrashIInv ==
  ASSUME IInv, Crash
  PROVE  IInv'
<1>1. /\ req' \in [Requests -> Request]
      /\ \A s \in Requests : req'[s] = Idle
      /\ UNCHANGED <<setting, users, rows, files, minted, refused, refs>>
      /\ "crash" \in Faults
  BY IdleInOrder DEF Crash
<1>2. TypeOK'
  BY <1>1 DEF IInv, TypeOK
<1>3. RequestsInOrder' /\ OneWriterPerFile'
  BY <1>1 DEF RequestsInOrder, OneWriterPerFile, InOrder, Idle, HoldsId, Writing
<1>4. RowsInOrder' /\ IdsInOrder'
  BY <1>1 DEF IInv, RowsInOrder, IdsInOrder, Served, Postgres, Faults
<1>5. OrphansAreOfDeletedUsers'
  BY <1>1 DEF OrphansAreOfDeletedUsers, Faults
<1>6. QED
  BY <1>2, <1>3, <1>4, <1>5 DEF IInv

(* ON DELETE CASCADE: in Postgres the rows made for the user go.            *)
LEMMA DeleteIInv ==
  ASSUME IInv, NEW u \in Users, DeleteUser(u)
  PROVE  IInv'
<1> USE DEF IInv
<1>1. /\ UNCHANGED <<setting, files, minted, refused, req>>
      /\ users' = users \ {u} /\ refs' \subseteq refs
  BY DEF DeleteUser
<1>2. \A m \in MediaIds : rows'[m] =
        IF Postgres /\ rows[m] # None /\ rows[m].owner = u THEN None ELSE rows[m]
  BY DEF DeleteUser
<1>3. \A m \in MediaIds : rows'[m] # rows[m] =>
        Postgres /\ rows'[m] = None /\ minted[m] = u
  BY <1>2 DEF RowsInOrder
<1>4. \A content : \A m \in MediaIds : Served(m, content) => Served(m, content)'
  BY <1>1, <1>3 DEF Served, Postgres, Faults
<1>5. TypeOK'
  <2>1. rows' \in [MediaIds -> Row \cup {None}]
    BY DEF DeleteUser, TypeOK
  <2>2. \A m \in MediaIds : minted'[m] = None => rows'[m] = None /\ files'[m] = None
    BY <1>1, <1>3 DEF TypeOK
  <2>3. QED
    BY <1>1, <2>1, <2>2 DEF TypeOK
<1>6. RequestsInOrder'
  <2>1. SUFFICES ASSUME NEW s \in Requests PROVE InOrder(req[s])'
    BY DEF RequestsInOrder
  <2>2. InOrder(req[s]) /\ req[s] \in Request
    BY DEF RequestsInOrder, TypeOK
  <2>3. CASE req[s].pc \in HoldsId
    <3>1. req[s].id \in MediaIds
      BY <2>2, <2>3, RequestAt DEF HoldsId, Writing
    <3>2. QED
      BY <1>1, <1>3, <1>4, <2>2, <3>1 DEF InOrder
  <2>4. CASE req[s].pc \notin HoldsId
    BY <1>1, <2>4 DEF InOrder, HoldsId, Writing
  <2>5. QED
    BY <2>3, <2>4
<1>7. OneWriterPerFile'
  BY <1>1 DEF OneWriterPerFile
<1>8. RowsInOrder'
  BY <1>1, <1>3 DEF RowsInOrder, Faults
<1>9. IdsInOrder'
  <2>1. \A x \in refs : x.id \in MediaIds
    BY DEF TypeOK, Ref
  <2>2. QED
    BY <1>1, <1>4, <2>1 DEF IdsInOrder
<1>10. OrphansAreOfDeletedUsers'
  BY <1>1, <1>3 DEF OrphansAreOfDeletedUsers, Faults
<1>11. QED
  BY <1>5, <1>6, <1>7, <1>8, <1>9, <1>10

-----------------------------------------------------------------------------
(* No step of a request, no deletion and no crash breaks the invariant.     *)
LEMMA NextIInv == IInv /\ [Next]_vars => IInv'
<1>1. SUFFICES ASSUME IInv, [Next]_vars PROVE IInv'
  OBVIOUS
<1>2. CASE UNCHANGED vars
  BY <1>1, <1>2, RefsStep DEF vars, IInv, TypeOK
<1>3. CASE Next
  BY <1>1, <1>3, StartIInv, LookupIInv, CreateIInv, FillIInv, SaveIInv, RemoveIInv,
     AttachIInv, DropIInv, CrashIInv, DeleteIInv
  DEF Next
<1>4. QED
  BY <1>1, <1>2, <1>3

LEMMA Invariance == Spec => []IInv
BY InitIInv, NextIInv, PTL DEF Spec

(* Rows, files, references and requests stay of their kinds, and nothing    *)
(* exists under an id that was never made.                                  *)
THEOREM TypeCorrect == Spec => []TypeOK
BY Invariance, PTL DEF IInv

(* Whatever the other requests do, a row whose save was not answered with an *)
(* error stands for a complete file.                                        *)
THEOREM RowsHaveFiles == Spec => []AcknowledgedRowsHaveFiles
<1>1. IInv => AcknowledgedRowsHaveFiles
  BY DEF IInv, RowsInOrder, AcknowledgedRowsHaveFiles
<1>2. QED
  BY <1>1, Invariance, PTL

(* An image a digest shows is served, unless its first owner is deleted or   *)
(* the answer to its save was lost.                                         *)
THEOREM NoOtherLosses == Spec => []OnlyKnownLosses
<1>1. IInv => OnlyKnownLosses
  BY DEF IInv, IdsInOrder, Served, OnlyKnownLosses, Resolves
<1>2. QED
  BY <1>1, Invariance, PTL

(* A download answers with the bytes of the row it found, or not at all.    *)
THEOREM DownloadsWhole == Spec => []DownloadsAreWhole
<1>1. IInv => DownloadsAreWhole
  BY DEF IInv, RequestsInOrder, InOrder, DownloadsAreWhole
<1>2. QED
  BY <1>1, Invariance, PTL

(* Short of a crash or a failing disk only the deletion of a user leaves a   *)
(* file behind.                                                             *)
THEOREM OrphansOfTheDeleted == Spec => []OrphansAreOfDeletedUsers
BY Invariance, PTL DEF IInv
=============================================================================
