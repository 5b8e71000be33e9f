----------------------- MODULE SchemaMigrationsProofs -----------------------
(* The migration runner upgrades the schema as one instance alone would, for *)
(* any number of files, instances and failures.                              *)
EXTENDS SchemaMigrations, TLAPS

(* Every file before the one an instance has reached is recorded, and the   *)
(* recorded files are a prefix of the list.                                 *)
BehindIsRecorded ==
  /\ \A i \in Instances, g \in Files : g < file[i] => g \in recorded
  /\ \A f \in recorded, g \in Files : g < f => g \in recorded

(* The primary key: whoever has inserted a version and not committed it is  *)
(* the only one, and the version is not recorded yet.                       *)
RecordIsExclusive ==
  \A i \in Instances : pc[i] = "commit" =>
    /\ file[i] \notin recorded
    /\ \A j \in Instances \ {i} : pc[j] = "commit" => file[j] # file[i]

IInv ==
  /\ TypeOK
  /\ BehindIsRecorded
  /\ RecordIsExclusive
  /\ EffectsAreRecorded
  /\ ServesWholeSchema

(* Whatever files a database has already, it satisfies the invariant at start. *)
LEMMA InitIInv == Init => IInv
<1>1. SUFFICES ASSUME Init PROVE IInv
  OBVIOUS
<1>2. PICK k \in 0..N : recorded = 1..k
  BY <1>1 DEF Init
<1>3. recorded \subseteq Files
  BY <1>2, SchemaAssumption DEF Files
<1>4. TypeOK
  BY <1>1, <1>3, SchemaAssumption DEF Init, TypeOK, Files
<1>5. BehindIsRecorded
  BY <1>1, <1>2, <1>3, SchemaAssumption DEF Init, BehindIsRecorded, Files
<1>6. RecordIsExclusive /\ EffectsAreRecorded /\ ServesWholeSchema
  BY <1>1, <1>3, SchemaAssumption
  DEF Init, RecordIsExclusive, EffectsAreRecorded, ServesWholeSchema
<1>7. QED
  BY <1>4, <1>5, <1>6 DEF IInv

(* A step that touches neither table and moves one instance within its file, *)
(* or back to the first one, keeps the invariant.                            *)
LEMMA QuietStep ==
  ASSUME NEW i \in Instances, IInv,
         UNCHANGED <<effects, recorded>>, crashes' \in Nat,
         NEW next \in {"down", "create", "check", "body", "record", "serving"},
         pc' = [pc EXCEPT ![i] = next],
         NEW f \in 1..N + 1, file' = [file EXCEPT ![i] = f],
         next \in {"body", "record"} => f \in Files,
         \A g \in Files : g < f => g \in recorded,
         next = "serving" => (i \in Migrating => recorded = Files)
  PROVE  IInv'
<1>1. TypeOK'
  BY DEF IInv, TypeOK, Files
<1>2. BehindIsRecorded'
  BY DEF IInv, TypeOK, BehindIsRecorded, Files
<1>3. RecordIsExclusive'
  BY DEF IInv, TypeOK, RecordIsExclusive
<1>4. EffectsAreRecorded' /\ ServesWholeSchema'
  BY DEF IInv, TypeOK, EffectsAreRecorded, ServesWholeSchema, Files
<1>5. QED
  BY <1>1, <1>2, <1>3, <1>4 DEF IInv

(* An instance that has passed every file has seen them all recorded.       *)
LEMMA PastTheLast ==
  ASSUME NEW f, f = N + 1, recorded \subseteq Files,
         \A g \in Files : g < f => g \in recorded
  PROVE  recorded = Files
<1>1. \A g \in Files : g < N + 1
  BY SchemaAssumption DEF Files
<1>2. QED
  BY <1>1

(* No step of an instance, and no crash, breaks the invariant.              *)
LEMMA NextIInv == IInv /\ [Next]_vars => IInv'
<1>1. SUFFICES ASSUME IInv, [Next]_vars PROVE IInv'
  OBVIOUS
<1>2. CASE UNCHANGED vars
  BY <1>1, <1>2 DEF IInv, TypeOK, BehindIsRecorded, RecordIsExclusive,
     EffectsAreRecorded, ServesWholeSchema, vars, Files
<1>3. ASSUME NEW i \in Instances, Step(i) \/ Crash(i) PROVE IInv'
  <2>types. /\ pc \in [Instances ->
                 {"down", "create", "check", "body", "record", "commit", "serving"}]
            /\ file \in [Instances -> 1..N + 1]
            /\ file[i] \in 1..N + 1
            /\ pc[i] \in {"body", "record", "commit"} => file[i] \in Files
            /\ crashes \in Nat /\ N \in Nat /\ 1 \in 1..N + 1
            /\ \A g \in Files : ~(g < 1)
            /\ \A g \in Files : g < file[i] => g \in recorded
            /\ recorded \subseteq Files
    BY <1>1, SchemaAssumption DEF IInv, TypeOK, BehindIsRecorded, Files
  <2>same. file = [file EXCEPT ![i] = file[i]]
    BY <2>types
  <2>1. CASE Start(i)
    <3>1. CASE i \in Migrating
      BY <1>1, <2>1, <2>types, <2>same, <3>1, QuietStep DEF Start, Goto
    <3>2. CASE i \notin Migrating
      BY <1>1, <2>1, <2>types, <2>same, <3>2, QuietStep DEF Start, Goto
    <3>3. QED
      BY <3>1, <3>2
  <2>2. CASE CreateTable(i)
    BY <1>1, <2>2, <2>types, <2>same, QuietStep DEF CreateTable, Goto
  <2>3. CASE SkipFile(i)
    <3>1. file[i] + 1 \in 1..N + 1 /\ \A g \in Files : g < file[i] + 1 => g \in recorded
      BY <2>3, <2>types DEF SkipFile, Exists, Files
    <3>2. pc' = [pc EXCEPT ![i] = "check"] /\ file' = [file EXCEPT ![i] = file[i] + 1]
      BY <2>3, <2>types DEF SkipFile, NextFile, Goto
    <3>3. QED
      BY <1>1, <2>3, <2>types, <3>1, <3>2, QuietStep DEF SkipFile
  <2>4. CASE BeginFile(i)
    BY <1>1, <2>4, <2>types, <2>same, QuietStep DEF BeginFile, Goto
  <2>5. CASE RunBody(i)
    BY <1>1, <2>5, <2>types, <2>same, QuietStep DEF RunBody, Goto
  <2>6. CASE BodyFails(i)
    BY <1>1, <2>6, <2>types, QuietStep DEF BodyFails, Exit, Goto
  <2>7. CASE RecordVersion(i)
    <3>1. TypeOK' /\ BehindIsRecorded' /\ EffectsAreRecorded' /\ ServesWholeSchema'
      BY <1>1, <2>7, <2>types DEF RecordVersion, Goto, IInv, TypeOK, BehindIsRecorded,
         EffectsAreRecorded, ServesWholeSchema, Files
    <3>2. RecordIsExclusive'
      BY <1>1, <2>7, <2>types DEF RecordVersion, RecordWaits, Goto, IInv, RecordIsExclusive
    <3>3. QED
      BY <3>1, <3>2 DEF IInv
  <2>8. CASE RecordFails(i)
    BY <1>1, <2>8, <2>types, QuietStep DEF RecordFails, Exit, Goto
  <2>9. CASE Commit(i)
    <3>0. /\ pc[i] = "commit"
          /\ pc' = [pc EXCEPT ![i] = "check"]
          /\ file' = [file EXCEPT ![i] = file[i] + 1]
          /\ recorded' = recorded \cup {file[i]}
          /\ effects' = [effects EXCEPT ![file[i]] = effects[file[i]] + 1]
          /\ crashes' = crashes
      BY <2>9 DEF Commit, NextFile, Goto
    <3>1. /\ file[i] \in Files /\ file[i] \notin recorded /\ effects[file[i]] = 0
          /\ effects \in [Files -> Nat]
          /\ file[i] + 1 \in 1..N + 1
      <4>1. file[i] \in Files /\ file[i] \notin recorded
        BY <1>1, <3>0, <2>types DEF IInv, RecordIsExclusive
      <4>2. effects \in [Files -> Nat] /\ effects[file[i]] = 0
        BY <1>1, <4>1 DEF IInv, TypeOK, EffectsAreRecorded
      <4>3. file[i] + 1 \in 1..N + 1
        BY <4>1, <2>types DEF Files
      <4>4. QED
        BY <4>1, <4>2, <4>3
    <3>2. TypeOK'
      <4>1. effects' \in [Files -> Nat] /\ recorded' \subseteq Files /\ crashes' \in Nat
        BY <3>0, <3>1, <2>types
      <4>2. file' \in [Instances -> 1..N + 1]
        BY <3>0, <3>1, <2>types
      <4>3. \A j \in Instances : pc'[j] \in {"body", "record", "commit"} => file'[j] \in Files
        BY <1>1, <3>0, <2>types DEF IInv, TypeOK
      <4>4. QED
        BY <3>0, <2>types, <4>1, <4>2, <4>3 DEF TypeOK
    <3>3. BehindIsRecorded'
      BY <1>1, <3>0, <3>1, <2>types DEF IInv, BehindIsRecorded, Files
    <3>4. RecordIsExclusive'
      BY <1>1, <3>0, <2>types DEF IInv, RecordIsExclusive
    <3>5. EffectsAreRecorded' /\ ServesWholeSchema'
      BY <1>1, <3>0, <3>1, <2>types DEF IInv, EffectsAreRecorded, ServesWholeSchema
    <3>6. QED
      BY <3>2, <3>3, <3>4, <3>5 DEF IInv
  <2>10. CASE Listen(i)
    <3>1. recorded = Files
      BY <2>10, <2>types, PastTheLast DEF Listen
    <3>2. QED
      BY <1>1, <2>10, <3>1, <2>types, <2>same, QuietStep DEF Listen, Goto
  <2>11. CASE Crash(i)
    <3>1. crashes' \in Nat
      BY <2>11, <2>types DEF Crash
    <3>2. pc' = [pc EXCEPT ![i] = "down"] /\ file' = [file EXCEPT ![i] = 1]
          /\ UNCHANGED <<effects, recorded>>
      BY <2>11 DEF Crash, Exit, Goto
    <3>3. QED
      BY <1>1, <3>1, <3>2, <2>types, QuietStep
  <2>12. QED
    BY <1>3, <2>1, <2>2, <2>3, <2>4, <2>5, <2>6, <2>7, <2>8, <2>9, <2>10, <2>11 DEF Step
<1>4. QED
  BY <1>1, <1>2, <1>3 DEF Next

(* The inductive invariant holds throughout.                                *)
LEMMA SpecIInv == Spec => []IInv
BY InitIInv, NextIInv, PTL DEF Spec

(* The runner's tables and processes are of the declared kinds.             *)
THEOREM SchemaTypesCorrect == Spec => []TypeOK
<1>1. IInv => TypeOK
  BY DEF IInv
<1>2. QED
  BY <1>1, SpecIInv, PTL

(* Each migration file takes effect exactly once and is recorded with it.   *)
THEOREM FilesRunOnce == Spec => []EffectsAreRecorded
<1>1. IInv => EffectsAreRecorded
  BY DEF IInv
<1>2. QED
  BY <1>1, SpecIInv, PTL

(* No migrating server listens on a database that lacks a migration.        *)
THEOREM ServingIsSafe == Spec => []ServesWholeSchema
<1>1. IInv => ServesWholeSchema
  BY DEF IInv
<1>2. QED
  BY <1>1, SpecIInv, PTL

(* A database that starts with the first files starts as the contract says. *)
LEMMA InitUpgrade == Init => Upgrade!Init
BY SchemaAssumption DEF Init, Upgrade!Init

(* Only Commit applies a file, and only Listen, Exit and their like change   *)
(* who is serving.                                                           *)
LEMMA StepUpgrade ==
  ASSUME IInv, NEW i \in Instances, Step(i) \/ Crash(i)
  PROVE  [Upgrade!Next]_Upgrade!vars
<1> DEFINE now  == {j \in Migrating : pc[j] = "serving"}
           then == {j \in Migrating : pc'[j] = "serving"}
<1>types. /\ pc \in [Instances ->
               {"down", "create", "check", "body", "record", "commit", "serving"}]
          /\ file \in [Instances -> 1..N + 1]
          /\ N \in Nat /\ Migrating \subseteq Instances /\ recorded \subseteq Files
          /\ \A g \in Files : g < file[i] => g \in recorded
  BY SchemaAssumption DEF IInv, TypeOK, BehindIsRecorded
<1>1. CASE Commit(i)
  <2>1. file[i] \in Files /\ file[i] \notin recorded
    BY <1>1 DEF Commit, IInv, TypeOK, RecordIsExclusive
  <2>2. then = now
    BY <1>1, <1>types DEF Commit, NextFile, Goto
  <2>3. Upgrade!Upgrade(file[i])
    BY <1>1, <1>types, <2>1, <2>2 DEF Commit, Upgrade!Upgrade, Upgrade!Files, Files
  <2>4. QED
    BY <2>1, <2>3 DEF Upgrade!Next, Upgrade!Files, Files
<1>2. ASSUME recorded' = recorded, NEW next, pc' = [pc EXCEPT ![i] = next],
             next = "serving" => (i \in Migrating => recorded = Files)
      PROVE  [Upgrade!Next]_Upgrade!vars
  <2>1. CASE i \in Migrating /\ next = "serving"
    <3>1. then = now \cup {i}
      BY <1>2, <1>types, <2>1
    <3>2. Upgrade!Serve(i)
      BY <1>2, <2>1, <3>1 DEF Upgrade!Serve, Upgrade!Files, Files
    <3>3. QED
      BY <2>1, <3>2 DEF Upgrade!Next
  <2>2. CASE i \in Migrating /\ next # "serving"
    <3>1. then = now \ {i}
      BY <1>2, <1>types, <2>2
    <3>2. Upgrade!Stop(i)
      BY <1>2, <3>1 DEF Upgrade!Stop
    <3>3. QED
      BY <2>2, <3>2 DEF Upgrade!Next
  <2>3. CASE i \notin Migrating
    <3>1. then = now
      BY <1>2, <1>types, <2>3
    <3>2. QED
      BY <1>2, <3>1 DEF Upgrade!vars
  <2>4. QED
    BY <2>1, <2>2, <2>3
<1>3. CASE Start(i)
  BY <1>2, <1>3 DEF Start, Goto
<1>4. CASE Listen(i)
  <2>1. recorded = Files
    BY <1>4, <1>types, PastTheLast DEF Listen
  <2>2. QED
    BY <1>2, <1>4, <2>1 DEF Listen, Goto
<1>5. CASE CreateTable(i) \/ SkipFile(i) \/ BeginFile(i) \/ RunBody(i) \/ RecordVersion(i)
  BY <1>2, <1>5 DEF CreateTable, SkipFile, BeginFile, RunBody, RecordVersion, NextFile, Goto
<1>6. CASE BodyFails(i) \/ RecordFails(i) \/ Crash(i)
  BY <1>2, <1>6 DEF BodyFails, RecordFails, Crash, Exit, Goto
<1>7. QED
  BY <1>1, <1>3, <1>4, <1>5, <1>6 DEF Step

(* Whatever instances race, crash and restart, the database is upgraded     *)
(* file by file, and served by migrating servers only when it is whole.     *)
THEOREM RunnerImplementsUpgrade == Spec => ImplementsUpgrade
<1>1. IInv /\ [Next]_vars => [Upgrade!Next]_Upgrade!vars
  <2>1. SUFFICES ASSUME IInv, [Next]_vars PROVE [Upgrade!Next]_Upgrade!vars
    OBVIOUS
  <2>2. CASE UNCHANGED vars
    BY <2>2 DEF vars, Upgrade!vars
  <2>3. CASE Next
    BY <2>1, <2>3, StepUpgrade DEF Next
  <2>4. QED
    BY <2>1, <2>2, <2>3
<1>2. QED
  BY <1>1, InitUpgrade, SpecIInv, PTL DEF Spec, ImplementsUpgrade, Upgrade!Spec
=============================================================================
