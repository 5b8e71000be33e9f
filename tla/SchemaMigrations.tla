-------------------------- MODULE SchemaMigrations --------------------------
(***************************************************************************)
(* Server start-up (cmd/server/main.go) and the migration runner it calls  *)
(* (internal/migrations/migrate.go), for several instances of the server   *)
(* on one database.  For each file, in order, an instance asks whether its *)
(* version is recorded, outside any transaction, and if not runs the file  *)
(* and records the version in one transaction.  Any error ends the process *)
(* (log.Fatalf) and docker-compose starts it again.                        *)
(*                                                                         *)
(* Postgres is external: the effects of a transaction are seen by others   *)
(* when it commits; a statement that meets an uncommitted change of the    *)
(* same kind waits for it; PRIMARY KEY (version) refuses a second record.  *)
(***************************************************************************)
EXTENDS Naturals

CONSTANTS
  N,             \* number of migration files, in the order of their names
  Repeatable,    \* files that do no harm to a database that has them already:
                 \* IF NOT EXISTS, or an UPDATE that finds nothing to do
  Instances,     \* server processes
  Migrating,     \* those started with RUN_MIGRATIONS=true and a database
  MaxCrashes     \* bound on the failures that no race explains

VARIABLES
  effects,       \* how often each file has taken effect
  recorded,      \* versions in schema_migrations
  pc, file,      \* what each instance is doing, and for which file
  crashes

vars == <<effects, recorded, pc, file, crashes>>
Files == 1..N

ASSUME SchemaAssumption ==
  /\ N \in Nat /\ MaxCrashes \in Nat
  /\ Repeatable \subseteq Files
  /\ Migrating \subseteq Instances

Init ==
  /\ \E k \in 0..N : recorded = 1..k
  /\ effects = [f \in Files |-> IF f \in recorded THEN 1 ELSE 0]
  /\ pc = [i \in Instances |-> "down"]
  /\ file = [i \in Instances |-> 1]
  /\ crashes = 0

Goto(i, next) == pc' = [pc EXCEPT ![i] = next]

(* Definitions named Bad... are plausible mistakes in the ones they precede; *)
(* the specification never uses them.                                        *)

(* The error of migrations.Run is logged and forgotten.                     *)
BadExit(i) == Goto(i, "serving") /\ UNCHANGED file
Exit(i)    == Goto(i, "down") /\ file' = [file EXCEPT ![i] = 1]

-----------------------------------------------------------------------------
(* main: without RUN_MIGRATIONS, or without a database, it serves at once.  *)
Start(i) ==
  /\ pc[i] = "down"
  /\ Goto(i, IF i \in Migrating THEN "create" ELSE "serving")
  /\ UNCHANGED <<effects, recorded, file, crashes>>

(* CREATE TABLE IF NOT EXISTS schema_migrations, and the sorted file names. *)
CreateTable(i) ==
  /\ pc[i] = "create"
  /\ Goto(i, "check")
  /\ UNCHANGED <<effects, recorded, file, crashes>>

NextFile(i) == Goto(i, "check") /\ file' = [file EXCEPT ![i] = @ + 1]

BadExists(f) == FALSE
Exists(f)    == f \in recorded

(* "break" where the code says "continue".                                  *)
BadSkipFile(i) ==
  /\ pc[i] = "check" /\ file[i] \in Files /\ Exists(file[i])
  /\ Goto(i, "serving")
  /\ UNCHANGED <<effects, recorded, file, crashes>>
SkipFile(i) ==
  /\ pc[i] = "check" /\ file[i] \in Files /\ Exists(file[i])
  /\ NextFile(i)
  /\ UNCHANGED <<effects, recorded, crashes>>

BeginFile(i) ==
  /\ pc[i] = "check" /\ file[i] \in Files /\ ~Exists(file[i])
  /\ Goto(i, "body")
  /\ UNCHANGED <<effects, recorded, file, crashes>>

(* Another instance has run the same file and not committed yet: the locks  *)
(* of its ALTER TABLE, or its row in schema_migrations, are waited for.     *)
HasRun(j, f) == pc[j] \in {"record", "commit"} /\ file[j] = f
BodyWaits(i)   == file[i] \notin Repeatable
                  /\ \E j \in Instances \ {i} : HasRun(j, file[i])
RecordWaits(i) == \E j \in Instances \ {i} : pc[j] = "commit" /\ file[j] = file[i]

BodyWorks(i) == file[i] \in Repeatable \/ effects[file[i]] = 0

(* The file is run on the pool, outside the transaction.                    *)
BadRunBody(i) ==
  /\ pc[i] = "body" /\ ~BodyWaits(i) /\ BodyWorks(i)
  /\ effects' = [effects EXCEPT ![file[i]] = @ + 1]
  /\ Goto(i, "record")
  /\ UNCHANGED <<recorded, file, crashes>>
RunBody(i) ==
  /\ pc[i] = "body" /\ ~BodyWaits(i) /\ BodyWorks(i)
  /\ Goto(i, "record")
  /\ UNCHANGED <<effects, recorded, file, crashes>>

(* ADD COLUMN on a table that has the column by now.                        *)
BodyFails(i) ==
  /\ pc[i] = "body" /\ ~BodyWaits(i) /\ ~BodyWorks(i)
  /\ Exit(i)
  /\ UNCHANGED <<effects, recorded, crashes>>

RecordVersion(i) ==
  /\ pc[i] = "record" /\ ~RecordWaits(i) /\ file[i] \notin recorded
  /\ Goto(i, "commit")
  /\ UNCHANGED <<effects, recorded, file, crashes>>

(* The primary key: another instance has recorded the version meanwhile.    *)
RecordFails(i) ==
  /\ pc[i] = "record" /\ ~RecordWaits(i) /\ file[i] \in recorded
  /\ Exit(i)
  /\ UNCHANGED <<effects, recorded, crashes>>

Commit(i) ==
  /\ pc[i] = "commit"
  /\ effects' = [effects EXCEPT ![file[i]] = @ + 1]
  /\ recorded' = recorded \cup {file[i]}
  /\ NextFile(i)
  /\ UNCHANGED crashes

(* Run has returned nil: NewServer, ListenAndServe.                         *)
Listen(i) ==
  /\ pc[i] = "check" /\ file[i] = N + 1
  /\ Goto(i, "serving")
  /\ UNCHANGED <<effects, recorded, file, crashes>>

(* The process is killed, the connection is lost, the database does not     *)
(* answer, a file cannot be read or a statement fails (004 may draw the     *)
(* same access code twice): an open transaction is rolled back.             *)
Crash(i) ==
  /\ pc[i] # "down" /\ crashes < MaxCrashes
  /\ crashes' = crashes + 1
  /\ Exit(i)
  /\ UNCHANGED <<effects, recorded>>

Step(i) ==
  \/ Start(i) \/ CreateTable(i) \/ SkipFile(i) \/ BeginFile(i)
  \/ RunBody(i) \/ BodyFails(i) \/ RecordVersion(i) \/ RecordFails(i)
  \/ Commit(i) \/ Listen(i)

Next == \E i \in Instances : Step(i) \/ Crash(i)

Spec == Init /\ [][Next]_vars

(* A process goes on as long as no lock holds it up, and is started again   *)
(* when it has ended (docker-compose: restart: unless-stopped).             *)
FairSpec == Spec /\ \A i \in Instances : WF_vars(Step(i))

-----------------------------------------------------------------------------
Upgrade == INSTANCE SchemaUpgrade WITH
  Servers <- Migrating,
  done    <- recorded,
  serving <- {i \in Migrating : pc[i] = "serving"}

(* Instances and tables are in the declared states.                          *)
TypeOK ==
  /\ effects \in [Files -> Nat]
  /\ recorded \subseteq Files
  /\ pc \in [Instances ->
       {"down", "create", "check", "body", "record", "commit", "serving"}]
  /\ file \in [Instances -> 1..N + 1]
  /\ \A i \in Instances : pc[i] \in {"body", "record", "commit"} => file[i] \in Files
  /\ crashes \in Nat

(* Each file takes effect exactly once and is recorded with it, however many *)
(* instances start together and wherever they crash.                         *)
EffectsAreRecorded ==
  \A f \in Files : effects[f] = IF f \in recorded THEN 1 ELSE 0

(* A server that migrates at start-up never serves a database that lacks a   *)
(* file, though it may have lost every race for one.                         *)
ServesWholeSchema ==
  \A i \in Migrating : pc[i] = "serving" => recorded = Files

(* Instances that race, fail and restart upgrade the database as one would.  *)
ImplementsUpgrade == Upgrade!Spec

(* Losing a race costs an instance a restart, never its service: once the    *)
(* failures end, every instance serves for good.                             *)
AllServe == \A i \in Instances : <>[](pc[i] = "serving")
=============================================================================
