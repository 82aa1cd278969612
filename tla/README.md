# sources-api-go: a TLA+ verification project

`sources-api-go` keeps, for every tenant of the Red Hat Hybrid Cloud Console,
the *sources* it connects to (cloud accounts, Satellite, OpenShift...), the
*applications* that use them, the *endpoints* and *Red Hat Connector
connections* through which they are reached, and the *authentications*
(credentials) that open them. It is one Go binary over PostgreSQL, Redis,
Kafka and a credential store. These modules model the parts of it whose
correctness depends on the order of things: what happens to rows, credentials
and events when requests, background jobs, status messages, crashes and other
instances of the program interleave.

## The system

One binary runs in one of three modes (`main.go`): the **API server**, the
**status listener** (a Kafka consumer of availability reports) and the
**background worker** (a Redis job queue and periodic jobs). All the state that
matters is outside the process, so every instance of every mode is an actor
that reads and writes the same tables.

| Component | State it keeps | Operations | Interacts with |
|---|---|---|---|
| Cascading deletion (`service/subresource_destroyer.go`, `dao/*_dao.go`) | rows of five tables, credentials, the slices a cascade collected | find/delete per table in a transaction, two goroutines for events and credentials | database locks and foreign keys, event stream, credential store |
| Superkey deletion (`superkey_handlers.go`, `jobs/superkey.go`, `jobs/async_destroy.go`) | the job queue, the delay, the requests on the superkey topic | 202 handler, two jobs, the superkey worker's replies | cascading deletion, job queue |
| Superkey creation (`service/superkey.go`, `service/superkey_helpers.go`) | a goroutine of the API server | one request, a post back | application editing, the retry job |
| Source and application editing (`source_handlers.go`, `application_handlers.go`, `model/*_http.go`) | rows of `sources`, `applications` | create, PATCH, pause, unpause, status propagation | status listener, availability checks |
| Status listener (`statuslistener/`) | availability columns of four tables | one goroutine per message | event stream, e-mail notifications |
| Availability checks (`service/availability_check.go`) | stale copies of whole sources | POST per application, RHC ping | source editing |
| Bulk create (`service/bulk_create.go`) | rows of a graph of resources | one transaction, credentials next to it | credential store, event stream |
| Retry-create job (`jobs/retry_create.go`) | `applications.retry_counter` | three statements every two minutes in every background worker, asynchronous events | event stream, superkey creation |
| Endpoints and RHC connections (`endpoint_handlers.go`, `dao/rhc_connection_dao.go`) | endpoints with a default and roles, connections shared by tenants and their links | create, edit, delete | cascading deletion |
| Tenants and users (`dao/tenant_dao.go`, `dao/user_dao.go`, `middleware/`, migrations) | tenants with their two identifiers, users | find or create, look up for a message, translate, merge duplicates | every request, the status listener, start-up |
| Migrations and their lock (`db/migrations/`) | a Redis key, the schema version | lock, migrate, unlock | start-up of every instance |
| Credential stores (`dao/authentication_*_dao.go`) | database rows, Vault or Secrets Manager secrets | create, update, delete, list | editing, deletion, bulk create |
| Lists, filters, pages (`dao/filtering.go`, `middleware/`, the list handlers) | nothing | a count and a page, in two queries | every table |
| GraphQL (`graphql_handlers.go`, `graph/`) | maps, locks and a channel per query | a goroutine per field | every table |
| Request pipeline (`routes.go`, `middleware/`) | nothing | headers, tenancy, user, permissions, events, notifications | tenants and users, all handlers |
| The process (`main.go`, `jobs/worker.go`, `statuslistener/`, `kafka/`) | a channel, a queue or a topic, a health timestamp | start a unit, take, shut down | all modes |

### What is hard here

- **Read, then write.** Handlers read a row, change the struct and write it back
  in another statement, without a lock and mostly without a transaction.
  Existence and uniqueness are checked in a query of their own.
- **Two stores.** Rows and credentials, rows and events, rows and cloud
  resources are changed one after the other. Nothing spans both, and either
  half can fail.
- **Work after the answer.** Events, credential cleanups, superkey requests and
  jobs run in goroutines or in another process; a crash loses them.
- **At most once.** A Kafka message is committed when it is read, a job is
  popped before it runs; neither is retried.
- **Two queries for one answer.** A list is a count and a page, and a client
  follows it over many requests, while others insert and delete.
- **Goroutines that wait for each other**: the resolvers of a GraphQL query, the
  units of a process and its main.
- **Many instances.** Migrations and seeding run at every start of every
  instance, next to others that start or serve.

## The modules

| Module | Models | Builds on |
|---|---|---|
| `DeletionContract` | what deletion promises to whoever reads the event stream | |
| `CascadeDelete` | `service.DeleteCascade` and the `DeleteCascade` of each DAO | implements `DeletionContract` |
| `CascadeDeleteProofs` | its theorems | `CascadeDelete` |
| `SuperkeyDestroy` | the 202 handlers, the jobs, the queue, the superkey worker | takes a cascade as one step |
| `SuperkeyDestroyProofs` | its theorems | `SuperkeyDestroy`; implements `DeletionContract` |
| `ResourceRows` | the ids of sources and applications, which of them belong together | |
| `ResourceEdit` | create, PATCH, pause, unpause, availability checks | extends `ResourceRows`; takes a cascade as one step |
| `StatusListener` | the handlers of availability reports | takes a cascade as one step |
| `StatusListenerProofs` | its theorem | `StatusListener` |
| `Startup` | lock, migrations, seeding, type cache | |
| `Credentials` | the Secrets Manager DAOs of authentications and secrets | |
| `BulkCreate` | the transaction of a bulk request and the connection pool; composes both kinds of requests | extends `Credentials` |
| `BulkAssembly` | what a bulk request makes of its body: rows, links, owner, status, messages | |
| `BulkCreateProofs` | theorems about both | `BulkCreate`, `BulkAssembly` |
| `TenantMigrations` | the migrations that merge duplicated tenants and create the unique indexes | |
| `Tenants` | the middlewares and the status listener that look a tenant and a user up, the translation to org ids | extends `TenantMigrations` |
| `TenantsProofs` | their theorems, and those of `Startup` | `Tenants`, `Startup` |
| `Links` | sources, endpoints and connections that are looked up before they are written | |
| `LinksProofs` | its theorems | `Links` |
| `VaultStore` | the Vault DAO of authentications | extends `ResourceRows` |
| `WriteBackProofs` | theorems about what is read and written back whole | `VaultStore`, `ResourceEdit` |
| `Tables` | the tables that are listed: who sees which row, relations, filters, order, pages | |
| `Lists` | the handlers that list and get, a session that pages | extends `Tables` |
| `GraphQL` | one query: its resolvers, locks and channel | extends `Tables` |
| `Worker` | superkey creation and the retry job | |
| `Process` | `main` and its unit in every mode, shutdown, queue, health | composes `Lists`, `GraphQL`, `Worker` |
| `ProcessProofs` | theorems about the whole | `Process` |

`MC*` modules give the constants of the runs their values. In `PROJECT.json`,
`map` names the lines each definition stands for.

**Data.** Rows, credentials, requests and messages are model values. Ids come
from sequences and are never reused, so a value stands for one row for ever.
Where only the presence of a row matters it is a member of a set. One database
statement is one step (PostgreSQL, READ COMMITTED); row locks are modelled
where statements of two transactions wait for each other (`CascadeDelete`).
What cannot change any property (wording, columns nobody compares) is left
out.

### CascadeDelete

`live`, `auths`: the rows and credentials there are. Each cascade has a program
counter `pc`, the table it is at (`stage`), the slices it has filled (`found`),
what its transaction has deleted and not yet committed (`dels`), the credentials
it listed (`creds`) and the events it raised (`raised`); `topic` is the event
stream. `Find` and `DeleteRows` are one statement each (`DeleteEndpoint` the
single one of endpoints). A delete waits, that is, it is disabled, while another
open transaction has deleted one of its rows; that these waits never form a
cycle is part of what `EveryCascadeEnds` checks. A delete of a parent also
removes, by ON DELETE CASCADE, the children that are there by then. `Commit` or
`Rollback` end the transaction. `Raise` and `ListIdsForResource` are the first
goroutine, `FetchAuths`, `WipeAuths` and `RaiseAuth` the second, `Crash` stops
either. `InsertRow`, `LookUpOwner` and `InsertAuth` are other requests that
create the `Late` rows and credentials meanwhile.

`DeletionContract` sees rows, credentials and announcements only: rows go
together with all their children, credentials only when their owner is gone,
and nothing is announced that is there. `ImplementsContract` shows that every
step of `CascadeDelete` is a step of it or a stutter.

### SuperkeyDestroy

`live`, `keys` (the credentials of sources), `cloud` (what the superkey worker
has made of an application's resources), `queue` (the Valkey list), `run` (one
job per goroutine of the worker). `Delete` is the handler, `Pop` the BLPOP,
`ListApplications` and `SendForApplication` the first job, `RunDestroy` the
second, with the 15 seconds in between: under `Prompt` the superkey worker
answers within them. `TearDown` and `Provision` are that worker, external code
modelled from the requests `service/superkey.go` sends it and from the rows it
reads back. `SendForApplication` ends in one of three ways: the worker is asked;
the run fails and enqueues nothing; or the lookup of the credential fails, which
`SendDeleteRequest` takes for an incomplete superkey, and the run goes on to
destroy what nobody was asked for. `DeleteDirectly` is the handler when
`IsSuperkey` fails, and with that says no: it cascades at once. `bypassed` are
the applications either has happened to, history that `Guarded` leaves out and
`BypassedByFailure` says is empty where nothing failed.

### ResourceEdit

A row is a record of four groups of columns: configuration, status, the two
dates and `paused_at`; `removed` are the rows that were deleted. A request is
that of one of `Clients`. `Load` reads the row to the struct `copy[r]`, `Write` is
`Updates(struct)`, which leaves out zero values: this is why a stale struct does
not undo a pause, and it may undo an *unpause* (see below). Deletions happen at
any time.

### StatusListener

One handler per message with the statements in the order of `processEvent`.
`record` is the row in memory, `payload` the event about to be written, `mails[x]`
the mails about a resource (from which status to which) and `stream` the events.
`serial` stays true while no two handlers overlapped, `clean` while nothing
failed, and `latest[s]` is the resource of a source that changed last: history.
`Told` is the status the mails about a resource end with. `BuildRecords` lists the
authentications of a resource, which fails once the resource is gone: then no
Records.update event is written.

### Startup

`lock` is the Valkey key, `applied` the migrations whose effects are in the
schema, `recorded` the rows gormigrate keeps. `Apply` and `Record` are apart
because the transaction option of gormigrate is off: a crash in between leaves a
migration applied and not recorded, and a second application of one that is not
`Repeatable` fails. Seeding is one statement per type.

### Credentials and BulkCreate

A credential is a row (`rows`), an ARN in it (`arn`) and a value in the store
(`store`). Requests take one step per statement and per AWS call. `op[r].pw` is
`authentication.Password` in memory: the plaintext that `GetById` loads is what
`Update` writes back. `BulkCreate` adds the pool: `Free` says that a connection
is left besides those that transactions hold, and every statement outside of the
own transaction waits for it. The row that a bulk request creates is no other
request's to create (`InBulk`), but others edit and delete it as soon as it is
there, before the transaction is committed.

### BulkAssembly

One bulk request with a body. `out` is the output that `BulkAssembly` fills in
memory, `made` the authentications that are in the table already, outside of the
transaction, `saved` whether the transaction is committed. The rows of the
request are numbered from 1, in the place of the ids the database gives them; so
that no number stands for two rows, existing resources have larger ones. The
operators are the functions of `service/bulk_create.go`: `ParseApplications`
gives a row for every source of that name, in the order of the loop
(`Ascending`), and `Accepted` counts them; `LinkTo` takes the existing resource,
else the first row that fits; ownership is asked of lists of names, of which
`LastPart` and `OwnershipPresentForApplication` keep that the last part of the
name asked for is compared with the names as given. Meanwhile every statement
can fail, the process can end, and another request deletes what exists. The
endpoint's own `source_id` and a type given both by id and by name are left out.

### TenantMigrations and Tenants

`tenants` and `users` are the tables, functions from the ids (and user ids) there
are; `users` stands for all seven tables with a `tenant_id`. The migrations
start from any of `InitialTables`, one of them per `step`. The groups of
duplicates are merged in any order, as Go ranges over a map, and the rows of a
group come in any order, as the query has no ORDER BY. `before` remembers what
the migrations found and is forgotten when they are done: it is history.

Afterwards each of `Clients` is a request (`Arrive`) that looks its tenant up by
org id, by account number, inserts it, then finds or adds its user, one statement
each, with `Retry` for a client that sends it again; or it is a status message
(`HearMessage`). `known` is the tenant that had the org id when the request came
in (history). `translator` is the one translation of a behaviour; what it has
written is seen by others at its commit only (`Seen` is its own view), and an
insert of the same org id waits until then (`Locked`). `MaxFaults` and
`MaxTenants` bound the failing statements and the ids.

### Links

The tables are functions from ids; `fresh` are connections that an open
transaction inserted, which others wait for. Each request (`req`) goes through
its lookups and its write: `ValidateSource` and `InsertSource`, `ValidateDefault`,
`DefaultToFirst`, `ValidateRole` and `InsertEndpoint` or `UpdateEndpoint`,
`FindConnection`, `InsertConnection` and `Link`. A source belongs to a user or is
shared by the tenant (`Somebody`), and the validation of a name sees the sources
that its user sees (`SourceVisible`). Every query can fail (`Fail`). The four
that look whether something is there already (`NameExistsInCurrentTenant`,
`CanEndpointBeSetAsDefaultForSource`, `SourceHasEndpoints`,
`IsRoleUniqueForSource`) take any error for "not there", so that the request goes
on (`Overlooked`). `raced`, `misled`, `unset` and `partners` are history: which
tenants and sources two requests were about at the same time, of which a failing
lookup missed a row, which sources had their default taken away, who ever had a
link to a connection. `UniqueUnlessRaced` says that an overlap and a lookup that
failed (`Unsure`) are the only ways to two defaults, two endpoints of a role, or
two sources of a name among those that a tenant shares. It says nothing of the
sources of users: a request without a user, or of another one, does not see them,
and may write the same name.

### VaultStore

`secrets` is what Vault holds, `rows` the resources in the database, which Vault
knows nothing of. An order lists keys (`FindKey`), reads one secret (`ReadKey`)
and writes the whole of it back (`WriteBack`), in three calls. What is read is not
all that was stored: `FromVault` is `authFromVault`, which leaves out the error of
an availability report, so that the next write erases it. A listing without a
resource reads one of the `Pages` of the keys. A cascade deletes
the rows and then lists (`ListIdsForResource`) and wipes (`WipeEach`) what
belonged to them. `Die` ends the process, which a failing `BulkDelete` does too.
`Longer` are the pairs of applications whose ids begin alike, which `WithPrefix`
confuses and `FindKeys` does not. The id of a credential is a random UUID, so
that no order names one that is not there yet (`Known`); without that guard an
edition of an id and the creation of a credential with it would be a race.
`gone`, `raced`, `strays`, `wrote` and `clean` are history: what was deleted, what
two orders were about at the same time, what was written for a resource that had
gone, the fields as last written (of the error, until another order writes), and
whether no call has failed.

### Tables, Lists and GraphQL

A row of any table is a record of the columns that a query compares (`db` are
those there are). `Visible` and `OfTenant` are the conditions on tenant and user,
`PrimaryExists`, `OfSource`, `OfType` and the two `ThroughApplications` the
relations of `model/relation_object.go`, `Allowed`, `BadFilter`, `Passes` and
`BadSort` the filters, with three operations for the nineteen. `Pages` is the set of
pages PostgreSQL may answer: all of them where the order leaves it open.
`Insert` and `Remove` are other requests, a removal with all that hangs on the
row.

In `Lists` there is one definition for each query of a DAO (what the primary
record is, and the rows before filters) and one for each handler. A *session*
goes through `Parse` (the middlewares), `FindPrimary`, `Count`, `Select` and
`NextPage`, and remembers what it was shown (`seen`, `twice`). `always`, `left`
and `came` are history: the rows that matched all the time, and how many stopped
matching and began to. A row that goes, comes and goes again counts twice: each
time it can shift the pages by one. Handlers that fill the response by index up
to the count are `SelectFixed`.

In `GraphQL` a resolver is a goroutine: `List`, `SendCount` and `Meta` at the
root, `TypeSources`, `Check`, `LockOwn` and `LoadOnce` below the rows. `locked`
is the mutex of the source ids, `owner` the mutexes of the maps, `chan` the
channel of the count.

### Worker

`app` are the applications (`row`, availability, age, `retry_counter`), `asked`
the request to the superkey worker: `ApplicationCreate` inserts the row and leaves
it "unsure", `CheckSuperkey` decides in a query of its own, for which `IsSuperkey`
is false also when it fails or when the row is gone by then. `job[j]` the transaction of the retry job in
worker `j`: `SettleAvailable`, `PickRetryable`, `CountRetry` are its statements,
`LockedBy` the rows it has updated. `resends[j]` are its goroutines, which
`ResendCreateMessages` ends whatever the transaction does. `told` counts the
Application.create events by who sent them.

### Process

`proc` is main and the unit of a mode, which the initial state chooses: the API
server with a session, a query or superkey requests under way, the background
worker with the retry job or with its queue, the status listener. `Signal`,
`SendShutdown` and `ReceiveShutdown` are the three receptions of the one
unbuffered channel, `Drained` and `DrainTimeout` the two ends of `e.Shutdown`.
`Terminate` is the end of the process with its goroutines and transactions.
`Take`, `Consume` and `PopJob` take from the topic or the queue for good;
`health` is the timestamp that `/health` looks at. `OtherProcesses` go on
whatever this one does.

## The runs

| Run | Instance | What it shows |
|---|---|---|
| `CascadeDelete_faults` | 1 source, 2 applications (one late), 2 cascades, all faults | the inductive invariant, no silent removal, the refinement |
| `CascadeDelete_races` | 2 sources sharing a connection, 2 applications, an endpoint, 3 credentials, 2 cascades, no faults | order and truth of events, foreign keys, termination, cleanup |
| `SuperkeyDestroy_requests` | 1 source, 2 applications (one late), 2 requests, 2 goroutines, all faults | nothing is deleted or leaked before it was asked for, but for what a swallowed error bypassed; what was accepted happens where nothing fails |
| `SuperkeyDestroy_owned` | an application that belongs to a user | *violated*: accepted and never done |
| `WriteBack_races` | 3 requests out of 8 of `ResourceEdit`, a source, an application, a source to create; or 2 orders at a time out of three workloads of `VaultStore` | a pause sticks, a deleted row stays deleted; Vault after edits, sweeps and crashes |
| `StatusListener_races` | 2 messages, 2 sources, 2 applications, an authentication, one fault | what is announced, mailed and propagated |
| `Startup_instances` | 2 servers, 2 migrations, any initial version, all faults | the inductive invariant with the order of migrations, complete schema, cache, metadata, progress |
| `Startup_exclusion` | 2 instances, no faults | *violated*: both migrate |
| `BulkCreate_requests` | a bulk request with 2 credentials, 2 single requests (also about one of these), 2 connections, all faults; and some 330 bodies of one or two sources, with existing resources | row and secret agree, passwords, completeness, no starvation; linked as asked, one owner, one status, announced in order |
| `Tenants_requests` | 2 requests or messages of 2 customers, 5 identities, 4 tables to migrate, a translation, one fault, with and without refresh | indexes can be created, duplicates end up together, the org id leads to one tenant, customers apart, the user belongs to the tenant, a repeated request is served |
| `Links_requests` | 2 requests at a time out of three workloads of two tenants and a user, lookups that fail | unique where nothing raced and no lookup missed a row, connections neither adrift nor taken away |
| `Process_modes` | each mode; 80 sessions, 10 queries, 2 applications, 2 workers | who sees what, complete pages, queries answered, messages accounted for, shutdown |

**Bounds.** Two actors are enough for every race here: a hazard is a step of one
between two steps of another, and no code path waits for two others. Three
requests in `ResourceEdit` add a third party between a stale read and its
write. A late row is a child of a row being deleted, which is the only place
where an insert matters to a cascade. Two migrations, one repeatable and one
not, give "in front of", "half done" and "cannot be repeated". `MaxRequests`,
`Workers`, the single fault of `StatusListener`, one request per client in
`Credentials` and one translation in `Tenants` are bounds of the model, named in
the modules. The four tables of `Tenants` are the kinds of duplicates the query
tells apart: none, by one column, by both with a row in common, and three times
the same; six ids are the four of the largest table and two requests. The pool has two
connections instead of 20 and one bulk request instead of up to 19: what matters
is that one more is there than there are transactions.

A behaviour of `Links_requests`, and one of `WriteBack_races` that is about
secrets, keeps to one workload, since orders of different workloads touch
nothing in common; `Requests` orders run at once. One user is enough for
`Links_requests`: what it owns another does not see, and neither do requests
without a user. Its requests are a symmetry set: no definition and no property
tells one from another. `WriteBack_races` checks rows and secrets side by side,
in behaviours of their own. A behaviour of `Process_modes` has one session, one
query or one new application: requests share nothing in the process, and what
other requests do to the tables is `Changes`. A query has each root field at
most once. `FixedLimit` is 1 instead of 100 and `GraphLimit` 3 instead of 500,
so that a list can be longer than its one page and a load can be cut off;
`RetryMax` is 1 instead of 5 and `MaxRollbacks` 1, so that the counter reaches
its limit in two runs, overlapping or not; `HealthCapacity` is 2 instead of 10
and `MaxMessages` 2.

**Fairness.** Weak fairness per cascade, handler, goroutine, request or
instance: the Go runtime schedules every goroutine and PostgreSQL answers. For
`Tenants` also that a client repeats what was answered with 500 and that the
translation ends; for `Startup` also that the lock expires and that the orchestrator restarts what
exited; for `SuperkeyDestroy` that the superkey worker answers. For `Process`:
`Main` and `Unit`, goroutines of this process, `Unit` with the 20 seconds of
`e.Shutdown`, and `AnswerQuery`, the resolvers of the one query, each of which
moves whenever the lock, the channel or the database lets it; nothing is assumed
of sessions, jobs, signals and beats. No fairness is assumed for other clients,
faults or inserts. No strong fairness is used.

**Deadlock** is checked except where the actors come to rest: every message
handled (`StatusListener_races`), every instance up or exited
(`Startup_instances`), every request served or refused, or a migration failed
(`Tenants_requests`), the process gone (`Process_modes`). In `Process_modes` a
query that waits for ever is what `QueryAnswered` excludes instead.

## Where the code differs from what it says

Shown by a run that TLC must find violated:

1. `SuperkeyDestroy_owned`: 202 "will complete asynchronously"
   (`superkey_handlers.go:19`). The job looks for the application without its
   user and does not find it.
2. `Startup_exclusion`: the lock does not exclude two instances that start
   together (`main.go:45`).

Met while modelling, without a run:

3. `TenantByIdentity` "tries to fetch the tenant by its
   OrgId, and if it is not preset, by its EBS account number"
   (`dao/interfaces.go:178`). It combines the two with OR and takes the smallest
   id: when the older of two tenants of a customer has only the account number,
   messages work in it and requests in the other (`HearMessage`).
4. "raising an event for every deleted resource"
   (`service/subresource_destroyer.go:14`): an application created between the
   find and the delete goes with its source and no event. `NoSilentRemoval`
   says what does hold.
5. `BulkMessage` of an authentication carries the first source of the table in
   its Records.update event.
6. `UpdateFromRequestPaused` stores `last_checked_at` as `last_available_at`
   (`model/source_http.go:142`).
7. A bulk request that is rolled back leaves the credentials it created
   (`service/bulk_create.go:38` says "rollback if anything bad happens").
8. A PATCH that read a paused row and writes it after an unpause pauses it
   again.
9. Two PATCHes of one credential, one with a new password and one without: the
   latter can restore the old password (`PasswordKept` is therefore about
   credentials no two requests were about at the same time).
10. Adding a password to a credential that was created without one panics in
    `Update` (`*arns[0]`), and the client reads 500.
11. Creating a secret whose insert failed answers 201: the `err` of the cleanup
    shadows the one that is returned (`dao/secret_secrets_manager_dao.go`).
12. When a migration fails the lock is not released, although the comment of
    `Migrate` says so: `Fatalf` exits first.
13. Twenty concurrent bulk requests hold all connections and wait for ever.
14. `TranslateTenants` "doesn't error when a tenant cannot be translated"
    (`dao/interfaces.go:188`): the refusal of one org id by the unique index
    aborts the PostgreSQL transaction, everything after it fails and nothing is
    translated.
15. "if new tenants are added/removed while the translation is in progress, all
    the counts and the results will still match" (`TranslateTenants`): under READ
    COMMITTED each statement sees the tenants committed by then, and as `Pluck`
    runs before `Offset` and `Limit` are set every batch reads all that are left.
16. "if an ID has already been processed, it will be skipped"
    (`20220608090500_remove_duplicated_tenant_ids_org_ids.go`): nothing skips it,
    and with overlapping groups rows can end on a tenant that was merged away by
    its other identifier. `RemoveMarked` keeps such a tenant.
17. A tenant that is found by its account number is not given the org id of the
    request: a request without the account number then creates a second tenant
    for the same customer, and without `HandleTenantRefresh` a user of the first
    is refused in the second for ever.
18. "using a buffered channel so it does not block whens ending if the count
    wasn't requested" (`graphql_handlers.go:60`): with two listing fields and no
    `meta` the second count finds the channel full, and the query is never
    answered. Nested fields below `application_types` wait for ever too when the
    query has no `sources`. `Answerable` are the other queries.
19. `EnsureAuthenticationsAreLoaded` asks without the user, unlike the
    applications next to it: a query does not show users their own
    authentications.
20. Lists of authentications of a source or an application fill the response by
    index up to the count: with more rows than 100, or one deleted between the
    two queries, the handler panics and the client reads 500.
21. The final underscore "is important since otherwise" `Source_1` would match
    `Source_11` (`dao/authentication_vault_dao.go:701`): the lists of the
    authentications of an application and of an endpoint look for the prefix
    without it.
22. When Vault fails during `BulkDelete`, the message reads the id of the nil
    authentication that was returned: the goroutine panics outside of any
    `Recover` and the process ends.
23. "we ONLY raise the update for superkey sources once the worker posts back"
    (`application_handlers.go:231`): the retry job announces such an application
    before.
24. `loadApplication` and `resendCreateMessages` look for an application without
    its user: one that belongs to a user is neither requested from the superkey
    worker nor announced again, though it is counted.
25. A status listener whose Kafka configuration is no good returns from `Run`
    and never receives from `shutdown`: the process does not end on a signal.
26. "if all of the applications did not get linked up - there was a problem with
    the request" (`service/bulk_create.go:250`): only numbers are compared. With
    two sources of one name, which the validation accepts as it sees neither, an
    application of that name is created twice and makes up for one that matches
    no source. `LinkedAsAsked` is therefore about different names.
27. Ownership compares the last part of a type's name with the names as given: an
    application whose type is given by its full name gets a source that belongs
    to the user and does not itself; given by id, it makes every other one given
    by id the user's, and its association nobody's. In a request of several
    sources the authentications follow the first one, and those of existing
    resources belong to nobody. `OwnedTogether` says where it holds.
28. The workflow of the first source of a bulk request decides for the
    applications of all of them (`service/bulk_create.go:478`).
29. An error of the lookup of the superkey credential, of the database or of
    Vault as well, ends `SendDeleteRequest` with no error
    (`service/superkey.go:102`), and `jobs/superkey.go:101` destroys what the
    superkey worker was never asked to tear down: "we enqueue a job that tells the
    superkey worker to tear down the cloud resources first"
    (`superkey_handlers.go:14`). The resources stay in the cloud when the
    credential goes with its source.
30. `IsSuperkey` of sources and applications answers no when its query fails
    (`dao/source_dao.go:312`, `dao/application_dao.go:240`). A deletion then
    cascades at once, as in 29. A creation is announced at once and never
    requested, although "do not raise if it is a superkey application"
    (`application_handlers.go:135`); so is one that was deleted before the query.
31. `authFromVault` is "basically the inverse of Authentication#ToVaultMap()"
    (`dao/authentication_vault_dao.go:403`), but does not read
    `availability_status_error`, which `ToVaultMap` stores: a listing does not
    show the error of a credential, and the next write of any other field
    removes it.
32. "If the record doesn't exist `result.Error` will have a `record not found`
    error" (`dao/endpoint_dao.go:188`): it has one as well when the query
    failed. The default, the role, the first endpoint and the name of a source
    (`dao/source_dao.go:295`) count as free then, and one request alone can write
    a second of each.
33. `NameExistsInCurrentTenant` looks at what the user sees of the tenant: two
    users, or a user and then the tenant, can have sources of one name.
34. A bulk request drops the role and the default of an endpoint that its
    validation has checked and set (`parseEndpoints`).

## What is proved

For every value of the constants, from the assumptions named in the modules.
Each theorem has an invariant that holds by itself where the property alone
does not; where that is part of the model (`CascadeInv`, `StartupInv` and the
like) it is also what the run checks.

**`CascadeDeleteProofs`.** `AnnouncedAreGone` and `CredentialsOutliveNoOne` are
not inductive: they say nothing about what a cascade *holds*. `CascadeInv` does:
what a transaction has found it has deleted up to the statement it is at
(`CascadeOK`), once committed none of it is live, a cascade only holds
credentials of rows in its slices, and what is gone is never born again
(`BornOK`). There is a lemma per action for the cascade that moves; `Frame` and
`OneCascadeMoves` carry the others, for which other cascades can only shrink
`live`. From it follow `AnnouncedSafe` and `CredentialsSafe`. The foreign keys
(`ForeignKeysHold`) need the row locks: a row that a transaction has deleted is
in no other one's (`LocksMove`). `NothingDisappears` and `EventsInOrder` need
what a statement has found of each table, and that the events of a cascade are
raised from the end of its slices (`FindsFrame`, `DependentsFirst`).
`CascadeImplementsContract` maps every step to one of `DeletionContract` or to a
stutter: the commit is the removal, the wipe the end of credentials.

**`SuperkeyDestroyProofs`.** Of an application whose resources are up and that
is settled, neither its own destroying job nor the one of its source is queued
or running (`Pending`, `NoDestroyWithoutRequest`), unless it is in `bypassed`:
what a swallowed error did to one application leaves the others guarded, and
`BypassedByFailure`, part of the invariant, says that it takes an error. The
step that enqueues it is the last `SendForApplication`, so the run must have
asked for every application: those it has read, and, as a page is all it reads,
those it has not. `SuperkeySafe` is therefore about sources with one page of
applications (`OnePage`: the 100 that `ListLimit` is), `NoLeak` also about a
superkey worker that answers within the 15 seconds (`Prompt`). Both are what the
code takes for granted. `SuperkeyImplementsContract` needs neither: with the
superkey credentials as the contract's credentials, every step of the jobs, of
the requests and of the superkey worker is a step of `DeletionContract` or a
stutter (`RunDestroy` its `RemoveRows`, `DeleteKey` its `Purge`,
`CreateApplication` its `InsertRow`). That holds from `RowsOK` alone: a source
has its credential, an application its source. Events are not in this model, so
the contract's third promise, about what is announced, is shown of
`CascadeDelete` only. The hypothesis `KeysApart` says that a credential is not a
row.

**`WriteBackProofs`.** Where a row or a secret is read, changed in memory and
written back. Of the rows in the database: `EditSafe`, no request brings a
deleted row back, since only INSERT adds one, with an id that never was;
`PauseSafe`, whatever requests hold stale copies, no write makes a column NULL
(`UpdatesFacts`), and so only an unpause ends a pause. Of the secrets in Vault,
where a write creates what is not there: `VaultSafe`, what goes wrong does so
only between two orders about the same credential. `BackOnlyIfRaced` and
`WrittenIsKept` say nothing about what requests have in memory, `CopyFresh`
does: outside of a race it is what is stored, as any other order about it that
is at work makes it one (`PairsRaced`), but for the error of the last report,
which is in no copy: it is kept until another order about the credential writes.
`NothingLeftBehind` needs to know of each secret whose resource is gone which
cascade has yet to find or to wipe it (`LeftToCascades`), and that what a
cascade has found stays its own until then, whatever is written over it
(`CascadesSteady`, and `CopiesAgree`: no copy, stale as it may be, moves a
credential to another resource). From the same follows `VaultOwn`. Every step
but those that write moves one request and leaves the secrets alone (`VFrame`).

**`StatusListenerProofs`.** For any number of messages and any reports, mails of a
resource form a chain that ends with its status, and a source has the status of
what changed last. `HandlerOK` says at each statement what the handler has
written and has yet to write. A handler that overlaps no other is `Alone`, and
only then does its step keep the chains (`AloneStep`); `Narrow` carries the rest.

**`TenantsProofs`.** For any tables the migrations may find and any order of the
groups in which they merge them: `MigrationsOK` says after each migration which
duplicates are left and where the data of those merged away is. Of requests,
`RequestOK` relates what one has read to the tables as they are now:
identifiers are only added to, so a tenant that had the org id has it for ever;
`TranslatorOK` says the same of what the translation has written and not
committed. `KeptApart` adds the hypothesis that the tables at the start do
not mix customers (`Coherent`): rows that carry identifiers of two customers
are beyond what the code can tell apart. `First` is the least of a set, which
exists by well-founded induction over the sets `1..n` (`LeastExists`).

Of `Startup`, which comes before any of that: `MigratedInOrder` alone does not
survive `Record`, which needs to know that the instance got there through all the
migrations before it although others migrate at the same time. `StandsAt` says so
for each program counter, and `SchemaGrows` shows that `applied` and `recorded`
never shrink, which carries it over the steps of the others, whoever has the
lock. From it follow `StartupInvariant`, `OrderSafe` and `ServesMigrated`: the
code is safe in spite of its lock. `SeedsSafe`: a type is saved by the statement
in front of the one that gives it its metadata, in each instance (`SeedingOK`),
and nobody takes it away.

**`BulkCreateProofs`.** That a row has its secret, that no secret is without its
row and that passwords are the last asked for (`SecretsSafe`) are three
statements about the end of a request that say nothing about its middle. A
credential yet to be created is in no table and no other request gets further
than to look for it (`UnbornOK`), so that what a creation wrote to the store is
still there when it inserts the row. What a request found when it looked still
holds when it writes, as far as the row needs its secret, whatever failed
(`StoreOK`). While nothing has failed, wherever a row and the store do not match
there is a request at work that mends it (`MatchOK`, with `Undeleted`,
`Leftover` and `Rewritten`); and two requests at a time about one credential are
known to have overlapped (`Alone`). A lemma per part says what a step that moves
one request leaves alone (`RequestsFrame`, `UnbornFrame`, `StoreFrame`,
`MatchFrame`). `AuthenticationsSafe` is about `BulkAssembly` and any body: up to
the commit `made` are the authentications created so far, but for those whose
resource another request deleted meanwhile. `AssemblySafe` is about all the rest of
a request: links, owner, status, associations, messages. The invariant is that at
each step `out` is what the operators make of the body (`RequestOK`), and `told`
the first messages of `BulkMessages` (`ToldOK`); what is left is what the operators
return. `FlattenFacts` says what the concatenation of any number of sequences holds
and in which order; it is proved by the least length for which it would not hold,
in place of an induction. As there are as many rows as applications asked for
(`Accepted`), each of them is of one source (`DistinctNames`, `ParsedApplications`).
`MessagesRanked` says that the events come in the order of the kinds.

**`LinksProofs`.** A request writes on the strength of what it looked up.
`Ready` says what that is at each program counter, `StaysReady` that the steps
of others leave it alone: a foreign key or a unique index protects it, an id is
never reused, or the two are in `raced`. What a failing lookup missed is put in
`misled` when it is missed (`OverlookedReady`), so that what a request believes
and what is there differ nowhere else. From it follow `LinksSafe` (keys and
indexes), `UniqueSafe`, `NoneAdrift` and the action property
`UnlinkedByPartners`.

**`ProcessProofs`.** `RetriesCounted` is about any number of background workers:
the goroutines that have yet to send are the elements of the set `Resends(a)`,
the runs that picked an application those of `Picking(a)`, and each step moves
one of either (`PickStep`, `CommitStep`, `ResendStep`) or drops some
(`SilentRun`). The bound on the counter needs that no two runs hold a row they
updated (`JobsOK`). Its part about the API (`Announced`) is that an application
is announced by it at most once: one that was asked for after the superkey
worker posted back, and one that was not, of a superkey source or not, when
`CheckSuperkey` was done. `EndsGracefully` follows the channel from main to the
unit and back (`ShutdownOK`), for each kind of process. `QueriesSafe` is about
any finite set of rows, any requests and any queries of the shape the
assumptions of `Tables`, `Lists` and `GraphQL` name. `ListingFacts` goes through
the 35 handlers: what one lists its requester may see. `CountedOK` says what a
session that counted and has not selected knows: without a deletion at least as
many rows match as were counted. Of a query, `ResolversOK` says that the source
ids are given away by the last step of the sources field, `MapsOK` that a map is
loaded after that and, with less than `GraphLimit` rows, has every row due that
was there all the time.

`PagesSafe`: the pages of a list make up the list. A client that has followed them
for a while has *passed* a set of rows: those of its last page and all that came
before them when it was selected. There is such a set at every step, as large as
the offset of the next page (`OnTheWay`). The order of a list with an id in it is
strict on the rows of its table (`OrderStrict`), whatever other columns come first,
and so a page that begins elsewhere than after that set does so because rows went
or came: rows that went before the client saw them are counted by what is missing
in the set (`SkippedFacts`), rows that come again by those that came in front of
it (`RepeatedFacts`). A row that comes or goes adds one to either count at most
(`WalkedChanges`). A page that is not full ends behind all there is (`PageFacts`).

**Only model-checked.** Everything under fairness, since liveness is out of the
prover's reach: termination of cascades, cleanup, accepted deletions, progress of
start-up, answered requests and queries, shutdown. Every other property of the
passing runs is a theorem.

## Plan

Done, in this order: cascading deletion, superkey deletion, editing, status
listener, start-up with its proofs, credentials and bulk create, tenants and
users, links between resources, the Vault store, the lists and GraphQL, superkey
creation with the retry job, the process, and the proofs above. To come:

1. An abstract credential store that `Credentials` and `VaultStore` implement.
2. Application authentications as requests of their own.

## Not modelled, and why

- The checks of the request pipeline (`middleware/`) that keep no state:
  permissions, ids, formats. Those that find or create the tenant and the user
  are in `Tenants`; events and mails are part of the models of the handlers.
- Of the filters, the operations on text and NULL; of GraphQL, what gqlgen
  generates and the resolvers that convert one field. The lists of Vault and of
  Secrets Manager are those of `VaultStore` and `Credentials`.
- The update of an RHC connection and the creation and deletion of a single
  application authentication: one statement each.
- The settings of the Kafka client (`kafka/sasl.go`, `GetReader`, `GetWriter`).
- Encryption, header parsing, configuration, metrics, logging, feature flags:
  pure functions and I/O.
- What the migrations other than those of the tenants do to the rows: each ran
  once, on data that is no longer there.
- More than one tenant outside of `Tenants`: every other statement filters on the
  tenant, except where the source says otherwise in the modules (the connections
  of `CascadeDelete`).
