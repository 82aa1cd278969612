------------------------------ MODULE Startup ------------------------------
(***************************************************************************)
(* What every instance of the program does before it serves: it takes a    *)
(* lock in Valkey, migrates the schema, releases the lock, seeds the type  *)
(* and metadata tables (an API server only) and caches the types.          *)
(*                                                                         *)
(* The lock is an EXISTS that is polled, then a SET with an expiration: not *)
(* one atomic step. Any error on the way is a Fatalf, which exits, and the *)
(* orchestrator starts the instance again. All instances run one version:  *)
(* the same migrations and the same seeds.                                 *)
(***************************************************************************)
EXTENDS Naturals, FiniteSets

CONSTANTS
    Instances,
    Servers,     \* the instances in API server mode
    Uuids,       \* the values an instance may give to the lock
    N,           \* the number of migrations
    Repeatable,  \* the migrations that can run on a schema that has them
    Types,       \* the source and application types there ever were
    Seeds,       \* those of the seed files
    NoUuid,
    MayFail      \* crashes, failing stores, migrations slower than the lock

ASSUME StartupAssumption ==
    /\ Servers \subseteq Instances
    /\ N \in Nat
    /\ Repeatable \subseteq 1..N
    /\ Seeds \subseteq Types
    /\ NoUuid \notin Uuids
    /\ MayFail \in BOOLEAN

VARIABLES
    lock,      \* the Valkey key, NoUuid when there is none
    applied,   \* the migrations whose effects are in the schema
    recorded,  \* the rows of the table "migrations"
    types,     \* the rows of source_types and application_types
    meta,      \* how many metadata rows each type has
    pc,        \* where each instance is
    uuid,      \* the value of its lock
    at,        \* the migration it is at
    seen,      \* the types it loaded, then its type cache
    todo,      \* the seeds it has not written yet
    clean      \* history: nothing failed, crashed or expired

startupVars == <<lock, applied, recorded, types, meta, pc, uuid, at, seen, todo, clean>>

schema == <<applied, recorded>>
typeTables == <<types, meta>>
locals == <<uuid, at, seen, todo>>

Migrating == {"check", "apply", "record"}
Locking   == Migrating \cup {"get"}
Seeding   == {"load", "types", "wipe", "meta"}
Starting  == {"exists", "set", "del", "cache"} \cup Locking \cup Seeding

Go(i, where) == pc' = [pc EXCEPT ![i] = where]

-----------------------------------------------------------------------------
\* The database is new, or as an earlier version of the program left it.
InitStartup ==
    /\ lock = NoUuid
    /\ \E k \in 0..N :
         /\ recorded = 1..k
         /\ types \in IF k = 0 THEN {{}} ELSE SUBSET Types
    /\ applied = recorded
    /\ meta = [t \in Types |-> IF t \in types THEN 1 ELSE 0]
    /\ pc = [i \in Instances |-> "down"]
    /\ uuid = [i \in Instances |-> NoUuid]
    /\ at = [i \in Instances |-> 1]
    /\ seen = [i \in Instances |-> {}]
    /\ todo = [i \in Instances |-> {}]
    /\ clean = TRUE

\* The instance is started. NewUUID gives it a value nobody has.
Start(i) ==
    /\ pc[i] = "down"
    /\ \E u \in Uuids \ ({lock} \cup {uuid[j] : j \in Instances}) :
         uuid' = [uuid EXCEPT ![i] = u]
    /\ at' = [at EXCEPT ![i] = 1]
    /\ seen' = [seen EXCEPT ![i] = {}]
    /\ todo' = [todo EXCEPT ![i] = {}]
    /\ Go(i, "exists")
    /\ UNCHANGED <<lock, schema, typeTables, clean>>

\* EXISTS, polled every three seconds while there is a lock.
CheckLock(i) ==
    /\ pc[i] = "exists"
    /\ lock = NoUuid
    /\ Go(i, "set")
    /\ UNCHANGED <<lock, schema, typeTables, locals, clean>>

\* SET without NX: whatever is there by now is overwritten.
SetLock(i) ==
    /\ pc[i] = "set"
    /\ lock' = uuid[i]
    /\ Go(i, "check")
    /\ UNCHANGED <<schema, typeTables, locals, clean>>

\* Faulty variant: what the schema already has counts as recorded.
CheckMigrationBySchema(i) ==
    /\ pc[i] = "check"
    /\ IF at[i] > N
         THEN Go(i, "get") /\ at' = at
       ELSE IF at[i] \in recorded \/ at[i] \in applied
         THEN at' = [at EXCEPT ![i] = @ + 1] /\ pc' = pc
       ELSE Go(i, "apply") /\ at' = at
    /\ UNCHANGED <<lock, schema, typeTables, uuid, seen, todo, clean>>

\* gormigrate: whether the migration has run.
CheckMigration(i) ==
    /\ pc[i] = "check"
    /\ IF at[i] > N
         THEN Go(i, "get") /\ at' = at
       ELSE IF at[i] \in recorded
         THEN at' = [at EXCEPT ![i] = @ + 1] /\ pc' = pc
       ELSE Go(i, "apply") /\ at' = at
    /\ UNCHANGED <<lock, schema, typeTables, uuid, seen, todo, clean>>

\* Faulty variant: a migration that fails is skipped.
ApplyOrSkip(i) ==
    /\ pc[i] = "apply"
    /\ IF at[i] \in applied \ Repeatable
         THEN /\ Go(i, "check")
              /\ at' = [at EXCEPT ![i] = @ + 1]
              /\ applied' = applied
         ELSE /\ applied' = applied \cup {at[i]}
              /\ Go(i, "record")
              /\ at' = at
    /\ UNCHANGED <<lock, recorded, typeTables, uuid, seen, todo, clean>>

(* The Migrate function, in a transaction of its own. One that adds what is *)
(* there already fails. (Fatalf: the lock stays until it expires.)          *)
Apply(i) ==
    /\ pc[i] = "apply"
    /\ IF at[i] \in applied \ Repeatable
         THEN Go(i, "down") /\ applied' = applied
         ELSE applied' = applied \cup {at[i]} /\ Go(i, "record")
    /\ UNCHANGED <<lock, recorded, typeTables, locals, clean>>

\* The INSERT into "migrations", whose primary key is the migration.
Record(i) ==
    /\ pc[i] = "record"
    /\ IF at[i] \in recorded
         THEN Go(i, "down") /\ UNCHANGED <<recorded, at>>
         ELSE /\ recorded' = recorded \cup {at[i]}
              /\ at' = [at EXCEPT ![i] = @ + 1]
              /\ Go(i, "check")
    /\ UNCHANGED <<lock, applied, typeTables, uuid, seen, todo, clean>>

\* Faulty variant: a lock that is not one's own is waited for.
GetLockOrWait(i) ==
    /\ pc[i] = "get"
    /\ lock = uuid[i]
    /\ Go(i, "del")
    /\ UNCHANGED <<lock, schema, typeTables, locals, clean>>

\* GET: a lock that is gone or that is another's is a Fatalf.
GetLock(i) ==
    /\ pc[i] = "get"
    /\ Go(i, IF lock = uuid[i] THEN "del" ELSE "down")
    /\ UNCHANGED <<lock, schema, typeTables, locals, clean>>

\* DEL: the key, whoever set it by now.
DelLock(i) ==
    /\ pc[i] = "del"
    /\ lock' = NoUuid
    /\ Go(i, IF i \in Servers THEN "load" ELSE "cache")
    /\ UNCHANGED <<schema, typeTables, locals, clean>>

-----------------------------------------------------------------------------
(* seedDatabase. Nothing keeps two servers from seeding at a time.         *)

\* loadSourceTypeSeeds and loadApplicationTypeSeeds.
LoadTypes(i) ==
    /\ pc[i] = "load"
    /\ seen' = [seen EXCEPT ![i] = types]
    /\ todo' = [todo EXCEPT ![i] = Seeds]
    /\ Go(i, "types")
    /\ UNCHANGED <<lock, schema, typeTables, uuid, at, clean>>

\* Create or Save. The name of a type is unique: creating it twice fails.
SaveType(i, t) ==
    /\ pc[i] = "types"
    /\ t \in todo[i]
    /\ IF t \in types \ seen[i]
         THEN Go(i, "down") /\ UNCHANGED <<types, todo>>
         ELSE /\ types' = types \cup {t}
              /\ todo' = [todo EXCEPT ![i] = @ \ {t}]
              /\ pc' = pc
    /\ UNCHANGED <<lock, schema, meta, uuid, at, seen, clean>>

\* The types the seeds no longer hold, and with them what uses them.
DropTypes(i) ==
    /\ pc[i] = "types"
    /\ todo[i] = {}
    /\ types' = types \ (seen[i] \ Seeds)
    /\ Go(i, "wipe")
    /\ UNCHANGED <<lock, schema, meta, locals, clean>>

WipeMetadata(i) ==
    /\ pc[i] = "wipe"
    /\ meta' = [t \in Types |-> 0]
    /\ todo' = [todo EXCEPT ![i] = Seeds]
    /\ Go(i, "meta")
    /\ UNCHANGED <<lock, schema, types, uuid, at, seen, clean>>

\* Faulty variant: only the types that are new get their metadata.
CreateNewMetadata(i, t) ==
    /\ pc[i] = "meta"
    /\ t \in todo[i]
    /\ meta' = [meta EXCEPT ![t] = IF t \in seen[i] THEN @ ELSE @ + 1]
    /\ todo' = [todo EXCEPT ![i] = @ \ {t}]
    /\ UNCHANGED <<lock, schema, types, pc, uuid, at, seen, clean>>

CreateMetadata(i, t) ==
    /\ pc[i] = "meta"
    /\ t \in todo[i]
    /\ meta' = [meta EXCEPT ![t] = @ + 1]
    /\ todo' = [todo EXCEPT ![i] = @ \ {t}]
    /\ UNCHANGED <<lock, schema, types, pc, uuid, at, seen, clean>>

EndSeeding(i) ==
    /\ pc[i] = "meta"
    /\ todo[i] = {}
    /\ Go(i, "cache")
    /\ UNCHANGED <<lock, schema, typeTables, locals, clean>>

\* PopulateStaticTypeCache.
PopulateTypeCache(i) ==
    /\ pc[i] = "cache"
    /\ seen' = [seen EXCEPT ![i] = types]
    /\ Go(i, "up")
    /\ UNCHANGED <<lock, schema, typeTables, uuid, at, todo, clean>>

-----------------------------------------------------------------------------
(* The lock expires 30 seconds after it was set. It may do so under an      *)
(* instance that is still migrating only when MayFail.                     *)
Expire ==
    /\ lock # NoUuid
    /\ LET held == \E i \in Instances : uuid[i] = lock /\ pc[i] \in Locking \cup {"del"}
       IN  /\ held => MayFail
           /\ clean' = (clean /\ ~held)
    /\ lock' = NoUuid
    /\ UNCHANGED <<schema, typeTables, pc, locals>>

\* A crash, a Fatalf on an error of Valkey or PostgreSQL, or a shutdown.
Stop(i) ==
    /\ MayFail
    /\ pc[i] # "down"
    /\ Go(i, "down")
    /\ clean' = FALSE
    /\ UNCHANGED <<lock, schema, typeTables, locals>>

Step(i) ==
    \/ Start(i) \/ CheckLock(i) \/ SetLock(i) \/ CheckMigration(i) \/ Apply(i)
    \/ Record(i) \/ GetLock(i) \/ DelLock(i) \/ LoadTypes(i) \/ DropTypes(i)
    \/ WipeMetadata(i) \/ EndSeeding(i) \/ PopulateTypeCache(i)
    \/ \E t \in Types : SaveType(i, t) \/ CreateMetadata(i, t)

NextStartup ==
    \/ \E i \in Instances : Step(i) \/ Stop(i)
    \/ Expire

SpecStartup == InitStartup /\ [][NextStartup]_startupVars

(* Every instance runs, the orchestrator starts those that are down, and   *)
(* Valkey removes what has expired.                                        *)
FairStartup ==
    /\ SpecStartup /\ WF_startupVars(Expire)
    /\ \A i \in Instances : WF_startupVars(Step(i))

-----------------------------------------------------------------------------
StartupTypeOK ==
    /\ lock \in Uuids \cup {NoUuid}
    /\ applied \subseteq 1..N
    /\ recorded \subseteq 1..N
    /\ types \subseteq Types
    /\ meta \in [Types -> Nat]
    /\ pc \in [Instances -> Starting \cup {"down", "up"}]
    /\ uuid \in [Instances -> Uuids \cup {NoUuid}]
    /\ at \in [Instances -> 1..(N + 1)]
    /\ seen \in [Instances -> SUBSET Types]
    /\ todo \in [Instances -> SUBSET Seeds]
    /\ clean \in BOOLEAN

(* Even when the lock lets two instances migrate, or expires under one, or  *)
(* an instance stops half way: no migration is applied before all those in *)
(* front of it are applied and recorded, and none is recorded that was not *)
(* applied.                                                                *)
MigratedInOrder ==
    /\ \A k \in applied : 1..(k - 1) \subseteq recorded
    /\ recorded \subseteq applied

(* No instance, in any mode, serves on a schema that lacks a migration.    *)
UpMeansMigrated ==
    \A i \in Instances : pc[i] \in Seeding \cup {"cache", "up"} =>
        applied = 1..N /\ recorded = 1..N

(* An API server that is up can resolve every type of the seeds, whichever  *)
(* other servers were seeding when it filled its cache.                    *)
CacheCoversSeeds ==
    \A i \in Servers : pc[i] = "up" => Seeds \subseteq seen[i]

(* While no server is seeding and none was interrupted, every type has its *)
(* metadata (twice, when two servers seeded at a time: the table has no    *)
(* unique index).                                                          *)
MetadataThere ==
    clean /\ (\E i \in Servers : pc[i] = "up")
          /\ (\A i \in Servers : pc[i] # "meta") =>
        \A t \in Seeds : meta[t] > 0

(* What requests find in a server that is up.                              *)
SeedsReady == CacheCoversSeeds /\ MetadataThere

(* What makes the two above inductive: where an instance stands, all the   *)
(* migrations before its own are recorded.                                 *)
StandsAt(i) ==
    /\ pc[i] \in {"exists", "set"} => at[i] = 1
    /\ pc[i] \in Migrating => 1..(at[i] - 1) \subseteq recorded
    /\ pc[i] \in {"apply", "record"} => at[i] <= N
    /\ pc[i] = "record" => at[i] \in applied
    /\ pc[i] \in {"get", "del", "cache", "up"} \cup Seeding => 1..N \subseteq recorded

InstanceOK == \A i \in Instances : StandsAt(i)

\* Where a server stands, the types that it has saved are there: what other
\* servers drop is not in the seeds.
SavedBy(i) ==
    /\ pc[i] \in Seeding => i \in Servers
    /\ pc[i] = "types" => Seeds \ todo[i] \subseteq types
    /\ i \in Servers /\ pc[i] \in {"wipe", "meta", "cache"} => Seeds \subseteq types
    /\ i \in Servers /\ pc[i] = "up" => Seeds \subseteq seen[i]

\* Metadata that was wiped is still to be created by a server.
MetadataToCome ==
    clean /\ (\E i \in Servers : pc[i] \in {"meta", "cache", "up"}) =>
        \A t \in Seeds : \/ meta[t] > 0
                         \/ \E j \in Servers : pc[j] = "meta" /\ t \in todo[j]

SeedingOK == MetadataToCome /\ \A i \in Instances : SavedBy(i)

(* The inductive invariant of the migrations and the seeding.              *)
StartupInv == StartupTypeOK /\ MigratedInOrder /\ InstanceOK /\ SeedingOK

(* "a Redis lock to ensure that only one application at a time can run the *)
(* migrations" (main.go:45).                                               *)
OneMigrator ==
    Cardinality({i \in Instances : pc[i] \in Migrating}) <= 1

(* Instances that take each other's lock away stop and start again; as long *)
(* as nothing else fails each of them gets up in the end.                  *)
EveryInstanceStarts ==
    \A i \in Instances : (pc[i] = "exists") ~> (pc[i] = "up" \/ ~clean)
=============================================================================
