# daijest_backend: a TLA+ model

`daijest_backend` is a Go HTTP server that keeps "digests" (JSON documents with
a version history), the images in them, and the accounts that own them. It runs
over PostgreSQL in production and over `MemoryStore` in tests and without a
`DATABASE_URL`. The server has no locks of its own across store calls, so the
questions worth a model are what overlapping requests, deletions of users,
failing statements and crashes do to data that is read in one call and used in
the next.

## Inventory

| Part | Code | State | Operations | What makes it correct |
|---|---|---|---|---|
| Digest store | `Store` in `internal/app/types.go`, `memory_store.go` | digests with owner, title, type, version and state; revisions | create, autosave, delete, get, list; deleted with the user | version, state and revisions move together; histories are append-only and die with their digest; ids are never reused |
| Digest transactions | `postgres_store.go`, `migrations/001`, `002` | the same, in tables; open transactions; row locks | two statements per save, one per deletion, a cascade per user | each transaction is one atomic store call; a version number is never taken; every transaction ends |
| Digest handlers | `server.go` | what a request has read | create, import, autosave, delete, rollback | only the owner changes a digest; a rollback restores what it was asked for |
| Accounts, codes, sessions | `server.go`, `memory_store.go`, `postgres_store.go` | accounts, code index, sessions | login, create, promote, demote, rename, delete | code index, accounts and sessions agree; somebody stays administrator |
| Media | `media.go`, `state_media.go`, `migrations/006` | rows, files, references from digests | inline save with reuse by SHA-256, upload, download, cascade | a row has its file; a digest's image is served |
| Decoding and image walk | `normalizeState` in `server.go`, `state_media.go` | none | decode a state, replace inline images in its JSON tree | every image replaced by a URL that is served, nothing else changed but by decoding |
| State migration tool | `cmd/migrate-state-media` | one long transaction, a list of known media, files | rewrite digests, then revisions | readers notice nothing; nothing inline is left; a failed run can be repeated; no save is lost |
| Schema migration runner, start-up | `internal/migrations`, `migrations/`, `cmd/server` | `schema_migrations`, the instances | run each file once, then serve | exactly once, in order, across races and restarts; nobody serves half a schema; everybody serves in the end |
| Routing, CORS, JSON, deployment | `server.go`, `deploy` | none | parsing and wiring | left out, see below |

How the parts interact: a handler calls the store once per statement it needs
and the file system in between; the store is the only state shared by requests.
The deletion of a user, made by an administrator's request, reaches digests,
revisions, sessions and media rows in one call. `normalizeState` runs the media
code inside every create, import, autosave and rollback, before the digest is
saved. The migration tools work on the same tables from other processes.

What is hard to test here: overlapping requests on one digest, rollbacks and
deletions; two administrators who act on each other; a login whose user is
deleted half-way; statements of different connections on one user; two statements of one save and what may come between them;
lock cycles in the database; a file that is written before, and removed after, a
row that other requests can see; answers that get lost; a command that rewrites
what users are editing, and fails half-way; servers that start together. `hazards` in
`PROJECT.json` lists each at its line, with the properties that cover it.

## Modules

    DigestStore ------ DigestApi ------ MCDigestApi
      |                    |
      |                    +-- DigestProofs
      +-- (INSTANCE) PgDigestStore ------ MCPgDigestStore
      |                    |
      |                PgDigestApi (INSTANCE DigestApi) ------ MCPgDigestApi
      |                    |
      |                    +-- PgDigestProofs (with DigestProofs)
      +-- (INSTANCE WITH) StateMigration ------ MCStateMigration
                           |
                           +-- StateMigrationProofs
    Accounts ------ MCAccounts
      |  \
      |   AccountsProofs
      +-- (INSTANCE WITH) PgAccounts ------ MCPgAccounts
                           |
                           +-- PgAccountsProofs (with AccountsProofs)
    Media     ------ MCMedia
      +-- MediaProofs
    StateTree ------ MCStateTree
      +-- StateTreeProofs
    SchemaUpgrade
      +-- (INSTANCE WITH) SchemaMigrations ------ MCSchemaMigrations
                           |
                           +-- SchemaMigrationsProofs

### DigestStore: the contract

One action per state-changing call of the digest half of `Store`, as
`MemoryStore` implements it: a call holds `s.mu` from start to end, so it is one
step. `digests` is the map of the same name; `revisions` holds a row
`[digest, version, state]` per saved version; `issued` stands for the id counter
(`newIDLocked`) or `gen_random_uuid`; `users` for the existing accounts. A call
that answers `ErrNotFound` changes nothing and is a stuttering step. `Init`
allows digests stored before media storage existed, with inline images.

A state is an `edit` (opaque) and the form of its images: `none`, `inline`,
`invalid`, `foreign` or `media` (`ImageForms`). `inlineImageDataURLPattern` finds base64 of
jpeg, png and webp only: `inline` and `invalid` (no image after all) are what it finds,
`foreign` are data URLs of other types (gif, svg), which are stored as they are sent.
`Images` says which forms occur in a run. Titles are model values; types are the known ones, one
unknown, and the empty one that keeps the stored type. `ChecksTypes` tells
Postgres (`digest_type_check`) from `MemoryStore`. Left out: revision labels,
revision ids (a revision is named by digest and version) and timestamps.

### DigestApi: the handlers

Each request is a record in `req` of what its handler holds between two store
calls. `Begin...` is `requireUser` with the checks on the body, `Finish...` the
final store call with the reply; a rollback has `FindRevision` (`GetRevision`
and `normalizeState`), `ReadCurrent` (`GetDigest`) and `FinishRollback`
(`AutosaveDigest`). `FailRequest` is any error answer: the handler stops, and
what it did stays. `RemoveUser` is the administrator's deletion. Reads that end
in a reply only (lists, export, single digest or revision) change nothing and
have no action.

### PgDigestStore: the transactions

`PostgresStore` statement by statement at READ COMMITTED. The variables of
`DigestStore` hold committed rows; `tx` holds what each connection's open
transaction has written. Row locks follow from the statements executed so far:
an `UPDATE` holds the digest, an insert with a `user_id` shares the user row, the
deletion of a user holds the user and then its digests one by one. Aborts stand
for failing statements, lost connections, cancelled contexts and crashes.
Postgres is external; the operators on locks say what the code relies on. The
locks taken by plain reads, and by the media and session rows that also refer to
a user, are left out: they conflict with nothing but the deletion of the user
and are never held while waiting.

`ImplementsStore == Store!Spec`, with `Store == INSTANCE DigestStore`, is the
refinement: the mapping is the identity on the committed tables, so every
transaction must take effect at its commit and as exactly one contract action.

### PgDigestApi: the handlers over the transactions

What the server does in production: the handlers of `DigestApi` over the
transactions of `PgDigestStore`. Reads (`Read`) are statements of their own; the
last store call of a request is `StartCreate` or `StartSave`, `LogRevision`, and
`Finish`, the commit with the answer. A request's transaction runs on a connection
that bears its name (`Requests \subseteq Tx`); the connections left over serve the
deletions of users (`RemoveUser`). `FailRequest` is every error answer, from a
statement that fails to a cancelled context; `defer tx.Rollback()` closes what the
request had open. Three statements: `ImplementsApi` (`Api!ApiSpec`, identity
mapping), so every property of `DigestApi` holds statement by statement;
`HandlersUseTransactions` (`PgSpec`), so `PgDigestStore` does not assume a use the
handlers do not make; and the properties of rollbacks and ownership themselves.

### Accounts

`MemoryStore`'s users, `codeToID` and sessions under the login handler and the
administrator handlers. A login is `FindUserByCode`, then the reading of the clock
(`IssueSession`), then `CreateSession`. An
administrator's request is admitted once (`Admit`, that is `requireAdmin`) and
goes on as that actor: a demotion counts (`CountAdmins`), then writes the flag,
then the name; a deletion writes at once. `now` is the clock; sessions have an
expiry and are removed only with their user, as in the code. Codes, tokens and
ids are chosen freely among unused ones; a clash of codes is an error
(`FailRequest`). `Seed` gives the accounts that exist when the server starts:
no handler can create the first administrator, the migrations (003, 005) do.
`CreateUser` and the e-mail index are left out: no handler reaches them.

### PgAccounts

The same handlers over `PostgresStore`. A call that writes is one statement outside
any transaction block; it is cut into its execution, which takes row locks and
computes the new row from committed ones (`Exec...`), and its commit
(`Commit...`). There is no code index: `UserWithCode` reads the column, and
`UNIQUE` makes a second creation with the same code wait. The handlers' reading
steps are those of `Accounts`, taken over by name. `Fail` is a refused statement,
a lost connection or a crash. `ImplementsAccounts` is the refinement, with the
index of `Accounts` computed from the rows.

### Media

Every step of `saveMediaBytes` and `handleMediaUpload` that another request can
observe: look up by SHA-256, check the file, create it, fill it, save the row,
remove the file after a refused save, save the digest that refers to it. A
download is `GetMedia` (the row) and `OpenFile`, with anything in between.
`setting`, chosen in `Init` and never changed, has the store and the faults:
`Postgres` tells the table with `ON DELETE CASCADE` and a foreign key from
`MemoryStore`, which checks and removes nothing. `Faults` switches on crashes,
disk failures and lost answers (`SaveMedia` commits but the caller sees an
error, as when the request's context is cancelled meanwhile). `minted` and
`refused` only record for whom an id was made and which saves were answered with
an error; no step depends on the second, and the first also says which ids are
used. An id reaches a digest through the request that stored it; that a client
may write any URL into a digest is left out, as the server never interprets it.
A crash of the machine (no `fsync` is called) is left out.

### StateMigration: the tool that moves old images out of the tables

One transaction: `LoadExistingMedia` (`mediaBySHA`), `ReadDigests`, then per row
`TakeRow`, an image at a time (`ReuseMedia`, or `WriteFile` and `InsertMedia`) and
`UpdateRow` or `LeaveRow`; the same for revisions; `Commit`. What the transaction
has written is in `tool` until it commits; files are visible at once. `Fail` is any
`log.Fatalf` or a kill: the transaction is gone, the files stay. The command may be
started again. A state has an `edit` and, at each of its `Places`, no image, an
inline one, a `broken` one (matches the pattern, is no base64), a `foreign` one
(an image type the pattern leaves alone) or the URL of a stored one.

The server looks up an image by its SHA-256 and gets one row, the oldest; if that row
has no file it stores the image again, although another row may have one
(`StoreImages`). The model keeps no times, which come from the clocks of the database and
of the command: any row of the image may be the one that is answered
(`RowsOf`). The command's own table has every row, whoever owns it, and the command asks
for the file only (`Usable`).

The server is there as atomic requests (`SaveDigest` with `normalizeState` before
it, deletions), which wait for the rows the command has written. `Serving` says
whether they run beside the command or only between its runs; no text of the
repository asks to stop the server. Rollbacks are saves of the state of a revision.

`ImplementsStore` is a refinement of `DigestStore` over what states *mean*: the mapping
replaces each image, inline or stored, by its bytes (`Means`), and a digest of the
contract is `Seen(g)`. So no step of the command may change a digest or a revision,
while saves and deletions are the contract's. What a reader *gets* is another question,
because a media URL is answered from its row, which goes with its owner: `Served` asks
for row and file, and `RevisionsKeepShowing` and `OnlyLaterSavesUndone` compare, step by
step, what was served for each image before and after. They allow two exceptions
(`Keeps`): an image may go with the account it was stored for, and the command may name
a row that it loaded and that went with its owner since (`main.go:318`).

### SchemaMigrations and SchemaUpgrade

`SchemaMigrations` is `main` up to `ListenAndServe` and `migrations.Run`, for
several instances: `CreateTable`, then per file the check outside any transaction,
`BeginFile`, `RunBody`, `RecordVersion`, `Commit`. `effects` counts how often a file
has taken effect. Of a file only this matters: whether it can be run on a database
that has it (`Repeatable`; 001 and 003 to 006 can, 002 adds columns and cannot).
An instance that loses a race fails on the column or on the primary key, exits
(`Exit`) and is started again by docker-compose. `SchemaUpgrade` is what that should
amount to: files take effect one after another, once, and servers that migrate serve
a whole schema only.

### StateTree

`normalizeState`: the decoding of the JSON (`Save`, or `RefuseNumber`), then
`replaceInlineStateMedia` with `replaceInlineMediaInString`, part by part, up to the
answer (`Finish`, `Refuse`, `Fail`). A tree is a leaf at each path: a string is the
sequence of its parts, any other value a single part. `arrays` are the paths whose items
come in order, the others are objects, whose keys `range` visits in any order. `Turn(q)`
says which leaf is next: one that is not done, after the items before it in every array
around them (`Precedes`), and inside whatever has been entered and not finished
(`DepthFirst`). So the recursion of the code is an order on the steps, and no recursive
operator is needed.

`Decoded` is what `encoding/json` makes of a value: the identity on most, another number
where `float64` cannot hold the one that was sent, `OutOfRange` where there is none; what
else it does (text that is not UTF-8) is another entry of that table. `Normal` decodes
every leaf and turns `null` for the whole state into the empty object.

`stored` are the media rows, oldest first, each with or without its file: `MediaFor` uses
the oldest row of an image again if its file is there, and stores the image anew
otherwise. `Fail` is a disk or a database that fails; after a lost answer of `SaveMedia`
the row stays, usually without the file that was removed, and is the one later saves
find. `walk.out` is the `strings.Builder` of each string; `walk.before`, the images
stored when the walk began, is there for the properties only. A client whose save was
refused takes out what is bad (`Correct`), may reload, and saves again. One walk at
a time: walks that race are in `Media`.

## Runs

| Run | Instance | What it shows |
|---|---|---|
| `digest_races` | `MemoryStore` (`ChecksTypes = FALSE`), 2 users, 1 digest, 2 requests, 3 versions, 2 edits, images in four forms, legacy ones inline | histories complete and append-only; no digest outlives its owner; only the owner changes it; a rollback never changes title or type unless a save came between its read and its write; no image the server could store is written inline |
| `pg_digest_store` | 3 connections, 2 users, 2 digests, 2 versions, 2 states, with fairness | the transactions implement `DigestStore`; at every moment of them the committed tables are well typed and their histories complete; `UNIQUE (digest_id, version)` never fails; every transaction ends, deadlocks included |
| `pg_digest_api` | Postgres, 2 requests and a connection that deletes their user, 2 digests, 3 versions, 1 edit with and without a legacy inline image | the handlers over interleaved, failing transactions implement the handlers over atomic calls; a rollback restores the revision it was asked for, of this digest, also an older one and with a save between its reads and its write |
| `accounts` | 3 ids, 2 of them administrators, 3 codes, 2 tokens, 2 requests, clock up to 2 | codes, accounts and sessions agree; a login gives the session to the account that has the code; a refused token stays refused; the last administrator can only disappear through a request whose actor lost its rights on the way, and then none ever comes back |
| `last_admin` | as `accounts`, clock stopped | **violation**: a demotion removes the last administrator |
| `pg_accounts` | 3 ids, one administrator, 2 codes (one free), 2 tokens, 2 requests, clock up to 1 | single statements under row locks, `UNIQUE` and the foreign key come to what `Accounts` does: no rename undoes a change of rights, no code is given twice, no session is made for a user on the way out |
| `media` | 2 users, 2 images, 2 ids, 2 requests; Postgres with every fault, Postgres with lost answers only, `MemoryStore` with a failing disk | acknowledged rows have whole files; a download is whole or refused; images are lost in two ways only, over `MemoryStore` in none; on a disk that works a refused save leaves no file, only deleted users do |
| `migration_offline` | 2 users, 2 digests, 2 images, 2 places, 3 media ids, 2 runs of the command, 2 versions, server stopped meanwhile | runs, failures and repetitions change nothing in what states mean; a run that ends well leaves nothing inline; the command stores an image only if no row of it is servable |
| `migration_serving` | 2 digests with plain, damaged and foreign images, 2 images, 4 media ids, 1 run, requests beside the command, with fairness | but for images that go with an account, revisions show the same and only saves made after the command's read are undone; URLs of users who are there are served; every run ends |
| `migration_lost_save` | 1 digest, 1 image, 1 run | **violation**: an autosave is overwritten by the command |
| `schema` | 6 files, 3 migrating instances and one with `RUN_MIGRATIONS=false`, 2 crashes, with fairness | each file takes effect once, in order; no migrating instance serves before the last; the runner implements `SchemaUpgrade`; every instance serves in the end |
| `state_tree` | a lone leaf, an array or object of 2 leaves, 3 leaves on two levels; strings of up to 2 parts, `null`, a number `float64` cannot hold and one out of range; 2 images, 3 media rows; every corrected and reloaded tree | states are saved as decoded with every image replaced by a URL that is served, or refused at a bad image or number; a refused save has stored what comes before it and nothing that comes only after; rows without files, left by lost answers, are never used; the walk is never stuck |

Why the bounds are enough. Every hazard in the list needs two requests on one
object, and at most one deletion next to them: two requests and a deletion produce each
of them. A second user is there where it matters who owns what (`digest_races`,
`pg_digest_store`, `accounts`, `media` and the migrations); in `pg_digest_api`, whose
questions are about statements, one user is enough. Three versions make "the revision
asked for", "the state read" and "the state now" three different things: a rollback to
the first revision of a digest at its second version, and one whose digest is saved
between its reads and its write, both complete in `digest_races` and in `pg_digest_api`
(digests start at version 1, and a save needs a version below the bound). Three connections are an
autosave, a second one that waits for it, and the deletion of the user. A third
account id and code let an id or code be taken by somebody else while a login is
under way. A clock up to 2 with a lifetime of 1 passes the moment of expiry and
goes beyond. Transactions do not look into states, so two that differ (`Storable` in
`pg_digest_store`) show whether a commit publishes the right one. Two media ids
give one image stored twice and two images stored once. `Settings` in `Media`
keeps three combinations of store and faults in one run; the choice is made once,
in `Init`. In `pg_accounts` two unused ids and one free code let two creations
draw the same code; a code also changes hands after a deletion. With the server
stopped the migration runs twice, so that a run can follow a failed one and one
that ended well; beside a running server once, with ids enough for whatever the
command and the server store meanwhile (a run that finds no id left could not end,
which the code's UUIDs never meet). Two digests and two images make it reuse rows
of the table, rows of its own and none; media present before it (`LegacyMedia`:
none, a row whose file is missing, a whole one, one of another image) give every
outcome of its look-up; the row without file also makes saves of the server add copies
that the command must then find. Three media rows in `state_tree` let both images be
stored beside a row without file, and one image behind two such rows. Six files are the files of the repository; three instances
are a winner, a loser and one that comes later. Every bound (`MaxVersion`,
`MaxTime`, `MaxRuns`, `MaxCrashes`, `MaxMedia`, the sets of ids) sits in a guard and only
disables further saves, ticks or creations.

Deadlock is checked in `state_tree` only, where a client can always save again, so it
shows that a walk always has a next step: elsewhere ids, versions and the clock run out, and once every
account is deleted nothing can happen in the real system either.

Symmetry is declared over interchangeable values only (ids, tokens,
requests); the runs with a liveness property use none.

**Fairness**. In `FairPgSpec`, commits and the next statement of an open
transaction are weakly fair, because the code issues them without waiting for
anything else; statements that wait for a lock are strongly fair, because
Postgres grants row locks in the order of the requests; the deadlock detector is
weakly fair. No new transaction is assumed ever to start, and no statement is
assumed to fail. In `StateMigration!FairSpec` the command's next step is weakly
fair (it waits for no request: a request is atomic there), and so are its failing on
a broken image or an owner who is gone; nothing makes it start again. In
`SchemaMigrations!FairSpec` each instance's steps are weakly fair, its restart
included (`restart: unless-stopped` in `deploy/docker-compose.yml:23`); a lock it
waits for is held by an instance that goes on or fails. Crashes are bounded, or an
instance could crash for ever.

### What the violations say

* `src/internal/app/server.go:182`: the count of administrators is taken
  before, and independently of, the write. Two administrators who demote or delete
  each other at the same time leave none, and no handler can make a new one.
  `ActiveAdminNeverLast` states what the guards do achieve.
* `src/cmd/migrate-state-media/main.go:167`: the state read by the first SELECT is
  written back later whatever happened to the digest. An autosave in between was
  answered and has its revision, but its digest shows the older state.
  `OnlyLaterSavesUndone` states what remains true; with the server stopped
  (`migration_offline`) nothing is lost.

Four weaknesses appear in the models as exceptions of a property, not as runs:

* `src/internal/app/media.go:74`: reuse by SHA-256 ignores the owner, and over
  Postgres the row goes with its owner: other users' digests lose the image (the
  second line of `OnlyKnownLosses`).
* `src/internal/app/media.go:109`: an error of `SaveMedia` is taken to mean that
  nothing was stored, which a lost answer does not (`refused` in
  `AcknowledgedRowsHaveFiles` and `OnlyKnownLosses`).
* `src/cmd/migrate-state-media/main.go:318`: the command takes a known image for stored if
  its file is there. The row may have gone with its owner since `mediaBySHA` was read, and
  the file stays (`media.go` removes none), so an inline image is replaced by a URL that is
  answered with 404 (the third line of `Keeps`).
* `src/internal/app/server.go:370`: an autosave's type is not validated. Over
  Postgres the table's constraint answers 500; `MemoryStore` stores it
  (`ChecksTypes = FALSE`).

## Proofs

`DigestProofs` proves for any sets of users, digests, titles, types and any
bound on versions, from `DigestStoreAssumption` only:

* `TypeCorrect`: `Spec => []TypeOK`, which is inductive as it stands, because it
  includes that an id that was never issued has no digest.
* `HistoryIsComplete`: `Spec => []HistoryComplete`. `HistoryComplete` is
  inductive relative to `TypeOK`: a create needs "unissued ids have no digest"
  and "no revision without digest" to know that the new id has no history; an
  autosave needs "revisions of d have versions in 1..n" to know that n + 1 is new.
* `OwnersAlwaysExist`: `Spec => []OwnersExist`.
* `HistoriesOnlyGrow`: `Spec => HistoryIsAppendOnly`, an action property.

There is one lemma per way a call changes the tables (create, autosave, drop).

The same module shows that this carries over to the handlers, for any number of
requests in flight: `ApiTypeCorrect` proves the types of everything a request
holds (with the tables' types, an inductive invariant), `HandlersImplementStore`
proves `ApiSpec => Spec` (a handler's step is a contract step or leaves the
tables alone), and `ApiHistories` draws the conclusion. The four action properties
(`RollbackIsExact`, `RollbackIsNarrow`, `ImagesAreStored`, `OnlyOwnersWrite`) ask
more: that what a handler read is still good when it writes. That is
`RequestsSound`, in three parts. A state about to be written has no image that the
pattern would find (`StateIsStorable`). A rollback that holds a revision holds the normalised state of
the one it was asked for, unless that is gone with its digest, and then the write
finds no digest (`Restores`). A rollback that has read the digest, of its own user,
has title and type of the version it saw, so they are current while that version is
(`SawCurrent`).

`PgDigestProofs` proves the refinement of the transactions, for any number of
connections, from the same assumption: `PgImplementsStore` is
`PgSpec => ImplementsStore`, `PgTablesCorrect` (`TablesCorrect`) the table invariants
at every moment of every transaction, `VersionsStayFree` that the UNIQUE constraint never refuses a
save. None of them is inductive, because the committed tables alone do not say
what a transaction is about to publish. The strengthening is `PgInv`:

* `LocksExclude`: two transactions never hold the same digest, and the one that
  deletes a user excludes every other that holds or shares that user;
* `CreateStands`: the user of an open create exists, its id is not issued and no
  other transaction writes it, and its row is a first version;
* `AutosaveStands`: the digest of an open autosave is still its user's, below the
  bound, and the row to publish is `SavedDigest` of the committed row.

`CreateStands` and `AutosaveStands` are the guards of the contract's create and
autosave, so a commit is that call. There is one lemma per statement; the two that
matter are a commit (another autosave of the digest is excluded by the row lock)
and the commit of a user's deletion (by then it holds every digest of the user, and
a create of that user would share the user row). The contract's own invariants
come from `DigestProofs` through the instance `Contract`.

The same module proves the refinement of the handlers, `PgImplementsApi`
(`PgApiSpec => ImplementsApi`), and that they use transactions as `PgDigestStore`
describes (`HandlersRunTransactions`). Neither follows from the refinement of the store:
an answer and a commit are one step of `DigestApi`, so what a transaction commits must be
what the request holds *now*. The joint invariant `PgApiInv` is `PgInv`, the invariant of
the handlers (`ApiIInv`) and `Carries`: an open transaction of a request is about the
digest, owner, title, type and state the request holds, and a request that holds none has
no transaction open (which is where a forgotten rollback would show). `LockedRowStays`
keeps the row under an open save until its commit. From the refinement,
`PgHandlersKeepTables`, `PgRollbackIsExact`, `PgOnlyOwnersWrite` and `PgHandlersBehave`
carry every property of `DigestStore` and `DigestApi` over to Postgres.

`SchemaMigrationsProofs` proves, for any number of files and instances and any
number of crashes, `SchemaTypesCorrect`, `FilesRunOnce` (`EffectsAreRecorded`),
`ServingIsSafe` (`ServesWholeSchema`) and the refinement `RunnerImplementsUpgrade`,
from `SchemaAssumption`. `ServesWholeSchema` is not inductive: an instance serves
because it has passed every file, and it may have passed them by finding them
recorded. The strengthening says that the recorded files are a prefix of the list
that covers all files an instance has passed (`BehindIsRecorded`), and that the
primary key admits one uncommitted record per file (`RecordIsExclusive`).

`AccountsProofs` proves every property of `Accounts`, for any number of accounts,
codes, tokens and requests, from `AccountsAssumption`. `CodesFindTheirUser` and
`SessionsHaveUsers` are inductive with the types; the action properties are not to be
had from them alone. `LoginHonoursCode` needs `LoginsStand`: a login goes on with an
account that existed once, so after a deletion inside it the id is used up, and while
the account lives its code is the one presented, since no handler changes a code.
`ActiveAdminNeverLast` (`ActorsStayAdmins`) needs `DemotionsSpareActor`: a request about
to take rights away never takes them from the administrator it was admitted for.
`LockOutIsFinal` follows because a request that promotes is admitted for an
administrator only.

`PgAccountsProofs` proves `PgImplementsAccounts`, `PgSpec => ImplementsAccounts`, from
`PgAccountsAssumption`. `PgInv` says what keeps an open statement right until it
commits. `Stands`: an INSERT has an id and a code nobody has, an UPDATE writes
`Updated(r)` of the row as committed now, a DELETE and a session's INSERT find their
account. `Apart` is what row locks, the foreign key and UNIQUE achieve between two
open statements: no row with two writers, no code or token twice, no session for a
row on its way out. So a commit is the critical section of `Accounts`, on an index
that is computed from the rows. The invariant of `AccountsProofs` is carried along
the refinement (instance `Facts`) and gives `PgAccountsCorrect` and
`PgAccountsBehave`: the invariants and the four action properties of `Accounts` hold
over Postgres too.

`MediaProofs` proves every property of `Media`, for any users, images and requests
and every combination of store and faults (`Settings`). `RequestsInOrder` says per
point of the handler what the request relies on (a request that fills a file finds
it `Partial`, one that saves finds it whole and its id without row, one that attaches
means an image that is served or lost in a known way); `OneWriterPerFile` keeps others
from that file; `RowsInOrder` ties a row to the user its id was made for and to its
file; `IdsInOrder` says of the references in digests what `OnlyKnownLosses` says, also
when the row has been found but not attached yet.

`StateMigrationProofs` is the longest argument. Its invariant relates what the
command holds to what is committed now:

* `RowInOrder`, for every row that is pending, in hand or written: its URLs are served
  or will be with the commit; its version is not newer than the digest's; it means
  what the row it was read from means, if that is still there; and with the server
  stopped it is still there. `UntouchedAsRead` says that until the first replacement
  the row is the very state that was read, and `HeldDerives` that every replacement is a
  URL of the command's table with the content of an inline image: that is all readers
  can be shown instead.
* `FileInHand`: a file whose row is not inserted yet is referred to by no state and no
  row, so losing it with a failed run loses nothing.
* `KnownInOrder`, `InsertedInOrder`: what the table of known images promises is served,
  and the owner of an inserted row cannot go before the commit (its row is shared).
* `DigestsCovered`, `RevisionsCovered`: a committed state with an inline image is of a
  row that the command holds. Beside a running server this needs that no save brings an
  inline image and that saves wait for written rows. So `NoInlineLeft` is proved for
  `Serving` too, where no run repeats it.

From these, `TypeCorrect`, `NothingInlineLeft`, `ReferencesAreServed`,
`RevisionsShowTheSame` and `OnlyLaterSavesAreUndone` hold with and without `Serving`.
`OfflineImplementsStore` and `NoNeedlessCopyOffline` have the hypothesis `~Serving`: with
requests beside the command both fail (`migration_lost_save` shows the first).
`NoNeedlessCopyOffline` needs nothing about the media present before the first run: they
may hold an image twice or without file. Its invariant, `CopiesKnown`, says that the command's table
has every servable row, those it inserted included. The assumptions on constants are
`StateMigrationAssumption` (clients send and old digests hold images, no URLs of media
that do not exist; old files have rows of their content) and `StoreAssumption` (the
absent digest is no digest).

`StateTreeProofs` proves the three properties of `StateTree` and that it leads from trees
to trees, for trees of any shape and depth, strings of any length, any table `Decoded` and
any number of refused, failed and repeated saves and lost answers, from
`StateTreeAssumption` (what clients send are trees without URLs of their own; `null` and
the client's `Blank` decode to themselves). `URLsServed` (`EveryURLIsServed`) alone does not say what a
saved URL stands for; `IInv` adds that the parts put out so far stand for the parts read
(`OutIsReplaced`), that the images stored since the walk began are among those read
(`StoredIsRead`), and that it enters a leaf only after those before it (`InOrder`).
`MediaForStores` is the lemma on reuse: whatever rows there are, the image has a row with
its file afterwards and no row has moved; `NormalTree` says what decoding leaves alone. At
a refusal, `InOrder` puts every image before the bad one among those read, and leaves
none that comes only after it.

Proved for every value of the constants, and for that reason not repeated in a run:
`ApiTypeOK`, `HandlersUseStore`, `HandlersUseTransactions`, the types of `PgAccounts`, the types of `SchemaMigrations`, `NoInlineLeft` beside
a running server, and over Postgres the invariants and action properties of `Accounts`.

Only model-checked: the liveness properties `TransactionsEnd`, `RunsEnd` and
`AllServe` (liveness under fairness, and all that speaks of `ENABLED`, is beyond the
prover's reach), and that a walk over a tree is never stuck before it has ended, which is
the deadlock check of `state_tree`.

## Not modelled

* Reads that end in a reply, routing, CORS, encodings, static files, configuration
  other than `RUN_MIGRATIONS` and `DATABASE_URL`.
* `CreateUser` and `FindUserByEmail`: no handler calls them. (Over Postgres
  `CreateUser` inserts no access code, which migration 004 makes NOT NULL.)
* Half-written files of the state migration: `WriteFile` is one step there, `Media`
  looks inside it. A half-written file never gets a row.
* Expired sessions are never removed and nothing bounds their number; the model
  keeps them as the code does.
* Generation of codes and tokens: a free choice of an unused value.
* Retries by clients: a repeated request is just another request.
* Requests carry no base version, so the later of two overlapping autosaves
  overwrites the earlier; the model does the same, and the history keeps both.

## Plan

1. (done) `DigestStore`, `DigestApi`, `PgDigestStore`, `Accounts`, `Media` with
   their runs; proofs of the store's invariants and of both refinements, of the
   handlers and of the transactions.
2. (done) `StateMigration`, `SchemaMigrations` with `SchemaUpgrade` and its proofs,
   `StateTree`, `PgAccounts`; downloads in `Media`.
3. (done) Proofs of `Accounts`, of the refinement by `PgAccounts`, of the isolation
   properties of `DigestApi`, of `Media` and of `StateMigration` with its refinement.
4. (done) `PgDigestApi`, `StateTree` as a walk of single steps, and their proofs.
5. (left) Composition of `Media` and `DigestStore`: references as states of digests and
   revisions, so that a rollback to an old revision is served too.
