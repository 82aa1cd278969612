--------------------------- MODULE CascadeDelete ---------------------------
(***************************************************************************)
(* service.DeleteCascade: the removal of a source, an application or an    *)
(* endpoint together with everything that hangs from it.                   *)
(*                                                                         *)
(* A cascade is one database transaction (READ COMMITTED, a find and a     *)
(* delete statement per table) followed, after the commit, by two          *)
(* goroutines tied together with a mutex: the first raises one destroy     *)
(* event per deleted row and then lists the credentials of those rows, the *)
(* second deletes the credentials and raises their events.  Any number of  *)
(* cascades run at the same time: two requests, or a request and a         *)
(* background job, for the same source or for a source and one of its      *)
(* applications, while other requests insert rows and credentials.         *)
(*                                                                         *)
(* Identifiers come from database sequences and are never reused, so a     *)
(* row is born at most once.  One tenant is modelled: every statement      *)
(* filters on it.  No statement of a cascade filters on the user.          *)
(***************************************************************************)
EXTENDS Naturals

CONSTANTS
    Sources, Apps, AppAuths, Endpoints, Conns, \* the rows of the five tables
    Auths,       \* the credentials of the secret store
    SourceOf,    \* applications.source_id and endpoints.source_id
    AppOf,       \* application_authentications.application_id
    AuthOf,      \* application_authentications.authentication_id
    Linked,      \* source_rhc_connections: the sources of a connection
    Owner,       \* authentications.resource_type and resource_id
    Late,        \* rows and credentials inserted while cascades run
    Cascades,    \* executions of DeleteCascade
    MayFail,     \* whether statements, Kafka and the secret store may fail
    None

Rows    == Sources \cup Apps \cup AppAuths \cup Endpoints \cup Conns
Targets == Sources \cup Apps \cup Endpoints

ASSUME ShapeAssumption ==
    /\ SourceOf \in [Apps \cup Endpoints -> Sources]
    /\ AppOf \in [AppAuths -> Apps]
    /\ AuthOf \in [AppAuths -> Auths]
    /\ Linked \in [Conns -> SUBSET Sources]
    /\ Owner \in [Auths -> Targets]
    /\ Late \subseteq (Apps \cup AppAuths \cup Endpoints \cup Auths)
    /\ MayFail \in BOOLEAN
    /\ None \notin Targets

\* What is there at the start refers only to what is there at the start.
ASSUME LateAssumption ==
    /\ \A x \in (Apps \cup Endpoints) \ Late : SourceOf[x] \notin Late
    /\ \A x \in AppAuths \ Late : AppOf[x] \notin Late /\ AuthOf[x] \notin Late
    /\ \A a \in Auths \ Late : Owner[a] \notin Late

ASSUME TablesAssumption ==
    /\ Sources \cap (Apps \cup AppAuths \cup Endpoints \cup Conns \cup Auths) = {}
    /\ Apps \cap (AppAuths \cup Endpoints \cup Conns \cup Auths) = {}
    /\ AppAuths \cap (Endpoints \cup Conns \cup Auths) = {}
    /\ Endpoints \cap (Conns \cup Auths) = {}
    /\ Conns \cap Auths = {}

VARIABLES
    live,     \* committed rows
    auths,    \* stored credentials
    born,     \* every row and credential ever inserted
    pending,  \* credentials whose owner has been looked up, not yet inserted
    pc,       \* where each cascade is
    target,   \* the resource each cascade was asked to delete
    stage,    \* the table its next statement, or its next listing, works on
    found,    \* what its finds returned: the slices of the Go code
    dels,     \* rows its open transaction has deleted (and holds locked)
    creds,    \* the authentications slice, then what BulkDelete fetched
    raised,   \* what RaiseEvent has been called for
    topic     \* the destroy events that reached the event stream

vars == <<live, auths, born, pending, pc, target, stage, found, dels, creds,
          raised, topic>>

-----------------------------------------------------------------------------
(* The tables, in the order in which a cascade visits them.                *)

Table == <<AppAuths, Apps, Endpoints, Conns, Sources>>

First(t) == IF t \in Endpoints THEN 3 ELSE 1
Last(t)  == IF t \in Sources THEN 5 ELSE IF t \in Apps THEN 2 ELSE 3

\* The rows the ON DELETE CASCADE foreign keys remove with row t.
Dependents(t) ==
    {x \in Apps \cup Endpoints : SourceOf[x] = t}
        \cup {x \in AppAuths : AppOf[x] = t \/ SourceOf[AppOf[x]] = t}

\* The rows the statements of a cascade on t select, t itself included.
Selected(t) ==
    {t} \cup Dependents(t) \cup {k \in Conns : t \in Linked[k]}

\* Faulty variant: the credentials of the applications are forgotten.
ListedWithoutApplications == {3, 5}

\* The tables whose credentials are listed, in the order of resourceTypes.
Listed == {2, 3, 5}

Transaction == {"find", "delete", "commit"}
Cleanup     == {"raise", "list", "fetch", "wipe", "raiseAuth"}
PCs         == {"idle", "failed", "crashed", "done"} \cup Transaction \cup Cleanup

\* What a statement of cascade c sees: committed rows but its own deletions.
Visible(c) == live \ dels[c]

\* Rows another open transaction has deleted: a delete waits for them.
LockedFor(c) == UNION {dels[d] : d \in Cascades \ {c}}

-----------------------------------------------------------------------------
Init ==
    /\ live = Rows \ Late
    /\ auths = Auths \ Late
    /\ born = (Rows \cup Auths) \ Late
    /\ pending = {}
    /\ pc = [c \in Cascades |-> "idle"]
    /\ target = [c \in Cascades |-> None]
    /\ stage = [c \in Cascades |-> 1]
    /\ found = [c \in Cascades |-> {}]
    /\ dels = [c \in Cascades |-> {}]
    /\ creds = [c \in Cascades |-> {}]
    /\ raised = [c \in Cascades |-> {}]
    /\ topic = {}

(* DeleteCascade is called. The handlers looked the resource up before, the *)
(* background job did not: by now it may be gone.                           *)
Begin(c, t) ==
    /\ pc[c] = "idle"
    /\ t \in born
    /\ pc' = [pc EXCEPT ![c] = "find"]
    /\ target' = [target EXCEPT ![c] = t]
    /\ stage' = [stage EXCEPT ![c] = First(t)]
    /\ UNCHANGED <<live, auths, born, pending, found, dels, creds, raised, topic>>

\* Faulty variant: the applications are left to the foreign key.
FindWithoutApplications(c) ==
    /\ pc[c] = "find"
    /\ target[c] \notin Endpoints
    /\ found' = [found EXCEPT ![c] = @ \cup
                    ((Selected(target[c]) \cap Table[stage[c]] \cap Visible(c)) \ Apps)]
    /\ pc' = [pc EXCEPT ![c] = "delete"]
    /\ UNCHANGED <<live, auths, born, pending, target, stage, dels, creds,
                   raised, topic>>

\* One SELECT of the transaction.
Find(c) ==
    /\ pc[c] = "find"
    /\ target[c] \notin Endpoints
    /\ found' = [found EXCEPT ![c] = @ \cup
                    (Selected(target[c]) \cap Table[stage[c]] \cap Visible(c))]
    /\ pc' = [pc EXCEPT ![c] = "delete"]
    /\ UNCHANGED <<live, auths, born, pending, target, stage, dels, creds,
                   raised, topic>>

\* Faulty variant: the connections are fetched but not deleted.
DeleteRowsButConnections(c) ==
    LET batch == (found[c] \cap Table[stage[c]]) \ Conns
        gone  == live \cap (batch \cup UNION {Dependents(x) : x \in batch})
    IN  /\ pc[c] = "delete"
        /\ stage[c] = Last(target[c]) => target[c] \in found[c]
        /\ gone \cap LockedFor(c) = {}
        /\ dels' = [dels EXCEPT ![c] = @ \cup gone]
        /\ IF stage[c] = Last(target[c])
             THEN /\ pc' = [pc EXCEPT ![c] = "commit"]
                  /\ stage' = stage
             ELSE /\ pc' = [pc EXCEPT ![c] = "find"]
                  /\ stage' = [stage EXCEPT ![c] = @ + 1]
        /\ UNCHANGED <<live, auths, born, pending, target, found, creds,
                       raised, topic>>

(* One DELETE of the transaction, by primary key, for the rows the find     *)
(* returned, with its foreign key cascades. It waits for rows another       *)
(* transaction has deleted; if that transaction commits they are simply no  *)
(* longer there, which is not an error. When the find for the target itself *)
(* returned nothing the delete has no condition and fails (see Rollback).   *)
DeleteRows(c) ==
    LET batch == found[c] \cap Table[stage[c]]
        gone  == live \cap (batch \cup UNION {Dependents(x) : x \in batch})
    IN  /\ pc[c] = "delete"
        /\ stage[c] = Last(target[c]) => target[c] \in found[c]
        /\ gone \cap LockedFor(c) = {}
        /\ dels' = [dels EXCEPT ![c] = @ \cup gone]
        /\ IF stage[c] = Last(target[c])
             THEN /\ pc' = [pc EXCEPT ![c] = "commit"]
                  /\ stage' = stage
             ELSE /\ pc' = [pc EXCEPT ![c] = "find"]
                  /\ stage' = [stage EXCEPT ![c] = @ + 1]
        /\ UNCHANGED <<live, auths, born, pending, target, found, creds,
                       raised, topic>>

(* endpointDaoImpl.Delete: one DELETE ... RETURNING. It finds no row, which *)
(* is an error, when another transaction has deleted it (see Rollback).     *)
DeleteEndpoint(c) ==
    /\ pc[c] = "find"
    /\ target[c] \in Endpoints \cap (live \ LockedFor(c))
    /\ found' = [found EXCEPT ![c] = {target[c]}]
    /\ dels' = [dels EXCEPT ![c] = {target[c]}]
    /\ pc' = [pc EXCEPT ![c] = "commit"]
    /\ UNCHANGED <<live, auths, born, pending, target, stage, creds, raised, topic>>

\* The target is no longer there.
NotFound(c) ==
    \/ pc[c] = "delete" /\ stage[c] = Last(target[c]) /\ target[c] \notin found[c]
    \/ pc[c] = "find" /\ target[c] \in Endpoints \ live

\* Faulty variant: the error of the transaction is not looked at.
RollbackIgnored(c) ==
    /\ pc[c] \in Transaction
    /\ MayFail \/ NotFound(c)
    /\ pc' = [pc EXCEPT ![c] = "raise"]
    /\ dels' = [dels EXCEPT ![c] = {}]
    /\ UNCHANGED <<live, auths, born, pending, target, stage, found, creds, raised, topic>>

\* Faulty variant: the transaction is tried again for ever.
RollbackThenRetry(c) ==
    /\ pc[c] \in Transaction
    /\ MayFail \/ NotFound(c)
    /\ pc' = [pc EXCEPT ![c] = "find"]
    /\ stage' = [stage EXCEPT ![c] = First(target[c])]
    /\ dels' = [dels EXCEPT ![c] = {}]
    /\ found' = [found EXCEPT ![c] = {}]
    /\ UNCHANGED <<live, auths, born, pending, target, creds, raised, topic>>

\* The transaction fails: nothing is deleted and no goroutine is started.
Rollback(c) ==
    /\ pc[c] \in Transaction
    /\ MayFail \/ NotFound(c)
    /\ pc' = [pc EXCEPT ![c] = "failed"]
    /\ dels' = [dels EXCEPT ![c] = {}]
    /\ found' = [found EXCEPT ![c] = {}]
    /\ UNCHANGED <<live, auths, born, pending, target, stage, creds, raised, topic>>

Commit(c) ==
    /\ pc[c] = "commit"
    /\ live' = live \ dels[c]
    /\ dels' = [dels EXCEPT ![c] = {}]
    /\ pc' = [pc EXCEPT ![c] = "raise"]
    /\ UNCHANGED <<auths, born, pending, target, stage, found, creds, raised, topic>>

(* The first goroutine raises the events table by table. A failure to write *)
(* to Kafka is logged and skipped.                                          *)
Raise(c, x) ==
    /\ pc[c] = "raise"
    /\ x \in found[c] \ raised[c]
    /\ \A m, n \in 1..5 : m < n /\ x \in Table[n] =>
            found[c] \cap Table[m] \subseteq raised[c]
    /\ raised' = [raised EXCEPT ![c] = @ \cup {x}]
    /\ \/ topic' = topic \cup {<<c, x>>}
       \/ MayFail /\ topic' = topic
    /\ UNCHANGED <<live, auths, born, pending, pc, target, stage, found, dels, creds>>

\* Faulty variant: the credentials do not wait for the mutex.
EndRaiseEarly(c) ==
    /\ pc[c] = "raise"
    /\ pc' = [pc EXCEPT ![c] = "list"]
    /\ stage' = [stage EXCEPT ![c] = First(target[c])]
    /\ UNCHANGED <<live, auths, born, pending, target, found, dels, creds,
                   raised, topic>>

EndRaise(c) ==
    /\ pc[c] = "raise"
    /\ found[c] \subseteq raised[c]
    /\ pc' = [pc EXCEPT ![c] = "list"]
    /\ stage' = [stage EXCEPT ![c] = First(target[c])]
    /\ UNCHANGED <<live, auths, born, pending, target, found, dels, creds,
                   raised, topic>>

\* Faulty variant: also the credentials of the application's source.
ListIdsOfParent(c) ==
    /\ pc[c] = "list"
    /\ LET owners == found[c] \cup
                {SourceOf[x] : x \in {target[c]} \cap (Apps \cup Endpoints)}
       IN  creds' = [creds EXCEPT ![c] = {a \in auths : Owner[a] \in owners}]
    /\ pc' = [pc EXCEPT ![c] = "fetch"]
    /\ UNCHANGED <<live, auths, born, pending, target, stage, found, dels,
                   raised, topic>>

(* One ListIdsForResource. An error is logged and its credentials are not  *)
(* seen; the Vault store skips the single keys it cannot read.             *)
ListIdsForResource(c) ==
    /\ pc[c] = "list"
    /\ LET ours == {a \in auths : Owner[a] \in found[c] \cap Table[stage[c]]}
       IN  \E got \in (IF MayFail THEN SUBSET ours ELSE {ours}) :
             creds' = [creds EXCEPT ![c] =
                         IF stage[c] \in Listed THEN @ \cup got ELSE @]
    /\ IF stage[c] = Last(target[c])
         THEN pc' = [pc EXCEPT ![c] = "fetch"] /\ stage' = stage
         ELSE stage' = [stage EXCEPT ![c] = @ + 1] /\ pc' = pc
    /\ UNCHANGED <<live, auths, born, pending, target, found, dels, raised, topic>>

\* BulkDelete, first half: the listed credentials that still exist.
FetchAuths(c) ==
    /\ pc[c] = "fetch"
    /\ creds' = [creds EXCEPT ![c] = @ \cap auths]
    /\ pc' = [pc EXCEPT ![c] = "wipe"]
    /\ UNCHANGED <<live, auths, born, pending, target, stage, found, dels,
                   raised, topic>>

\* Faulty variant: application_authentications without its foreign key.
WipeAuthsOnly(c) ==
    /\ pc[c] = "wipe"
    /\ auths' = auths \ creds[c]
    /\ pc' = [pc EXCEPT ![c] = "raiseAuth"]
    /\ UNCHANGED <<live, born, pending, target, stage, found, dels, creds,
                   raised, topic>>

(* BulkDelete, second half. Credentials that could not be deleted are left *)
(* dangling. In the database store the deletion of a credential removes    *)
(* the application authentications that point to it.                       *)
WipeAuths(c) ==
    /\ pc[c] = "wipe"
    /\ \E gone \in (IF MayFail THEN SUBSET creds[c] ELSE {creds[c]}) :
         LET users == {x \in live \cap AppAuths : AuthOf[x] \in gone}
         IN  /\ users \cap LockedFor(c) = {}
             /\ auths' = auths \ gone
             /\ live' = live \ users
             /\ creds' = [creds EXCEPT ![c] = gone]
    /\ pc' = [pc EXCEPT ![c] = "raiseAuth"]
    /\ UNCHANGED <<born, pending, target, stage, found, dels, raised, topic>>

RaiseAuth(c, a) ==
    /\ pc[c] = "raiseAuth"
    /\ a \in creds[c] \ raised[c]
    /\ raised' = [raised EXCEPT ![c] = @ \cup {a}]
    /\ \/ topic' = topic \cup {<<c, a>>}
       \/ MayFail /\ topic' = topic
    /\ UNCHANGED <<live, auths, born, pending, pc, target, stage, found, dels, creds>>

Finish(c) ==
    /\ pc[c] = "raiseAuth"
    /\ creds[c] \subseteq raised[c]
    /\ pc' = [pc EXCEPT ![c] = "done"]
    /\ UNCHANGED <<live, auths, born, pending, target, stage, found, dels, creds,
                   raised, topic>>

\* The process stops: an open transaction is rolled back, the rest is lost.
Crash(c) ==
    /\ MayFail
    /\ pc[c] \in Transaction \cup Cleanup
    /\ pc' = [pc EXCEPT ![c] = "crashed"]
    /\ dels' = [dels EXCEPT ![c] = {}]
    /\ found' = [found EXCEPT ![c] = IF pc[c] \in Transaction THEN {} ELSE @]
    /\ UNCHANGED <<live, auths, born, pending, target, stage, creds, raised, topic>>

-----------------------------------------------------------------------------
(* The requests that run next to the cascades. The foreign key of an       *)
(* inserted row waits while a transaction holds its parent deleted.        *)

Deleting == UNION {dels[c] : c \in Cascades}

InsertRow(x) ==
    /\ x \in Late \ born
    /\ \/ x \in Apps \cup Endpoints /\ SourceOf[x] \in live \ Deleting
       \/ x \in AppAuths /\ AppOf[x] \in live \ Deleting /\ AuthOf[x] \in auths
    /\ live' = live \cup {x}
    /\ born' = born \cup {x}
    /\ UNCHANGED <<auths, pending, pc, target, stage, found, dels, creds, raised, topic>>

\* authenticationDaoDbImpl.Create, first half: the resource must exist.
LookUpOwner(a) ==
    /\ a \in (Late \cap Auths) \ (born \cup pending)
    /\ Owner[a] \in live
    /\ pending' = pending \cup {a}
    /\ UNCHANGED <<live, auths, born, pc, target, stage, found, dels, creds,
                   raised, topic>>

\* Second half: no foreign key ties a credential to its resource.
InsertAuth(a) ==
    /\ a \in pending
    /\ pending' = pending \ {a}
    /\ auths' = auths \cup {a}
    /\ born' = born \cup {a}
    /\ UNCHANGED <<live, pc, target, stage, found, dels, creds, raised, topic>>

-----------------------------------------------------------------------------
Step(c) ==
    \/ Find(c) \/ DeleteRows(c) \/ DeleteEndpoint(c) \/ Rollback(c) \/ Commit(c)
    \/ \E x \in Rows : Raise(c, x)
    \/ EndRaise(c) \/ ListIdsForResource(c) \/ FetchAuths(c) \/ WipeAuths(c)
    \/ \E a \in Auths : RaiseAuth(c, a)
    \/ Finish(c)

Request ==
    \/ \E x \in Rows : InsertRow(x)
    \/ \E a \in Auths : LookUpOwner(a) \/ InsertAuth(a)

\* Every cascade that was started has ended: the system may rest.
Terminating ==
    /\ \A c \in Cascades : pc[c] \notin Transaction \cup Cleanup
    /\ UNCHANGED vars

Next ==
    \/ \E c \in Cascades : Step(c) \/ Crash(c) \/ (\E t \in Targets : Begin(c, t))
    \/ Request
    \/ Terminating

Spec == Init /\ [][Next]_vars

(* Once DeleteCascade is called its statements and its goroutines run: the *)
(* database ends lock waits and the Go scheduler runs every goroutine.     *)
FairSpec == Spec /\ \A c \in Cascades : WF_vars(Step(c))

-----------------------------------------------------------------------------
TypeOK ==
    /\ live \subseteq Rows
    /\ auths \subseteq Auths
    /\ born \subseteq Rows \cup Auths
    /\ pending \subseteq Auths
    /\ pc \in [Cascades -> PCs]
    /\ target \in [Cascades -> Targets \cup {None}]
    /\ stage \in [Cascades -> 1..5]
    /\ found \in [Cascades -> SUBSET Rows]
    /\ dels \in [Cascades -> SUBSET Rows]
    /\ creds \in [Cascades -> SUBSET Auths]
    /\ raised \in [Cascades -> SUBSET (Rows \cup Auths)]
    /\ topic \subseteq Cascades \X (Rows \cup Auths)

(* A destroy event is only ever published for a row or a credential that   *)
(* is gone for good: never for one whose deletion was rolled back, and     *)
(* never before the commit. (DeleteCascade starts its goroutines after the *)
(* transaction, and events of Authentication.destroy after BulkDelete.)    *)
AnnouncedAreGone ==
    \A e \in topic : e[2] \in born /\ e[2] \notin live \cup auths

(* A row that existed before any cascade ran never disappears silently: it *)
(* is in the slice of a committed cascade, which will raise its event. The *)
(* foreign keys could remove it without one. (An application               *)
(* authentication can also fall with its credential, see WipeAuths.)       *)
NoSilentRemoval ==
    \A x \in Rows \ (Late \cup AppAuths \cup live) :
        \E c \in Cascades : x \in found[c] /\ pc[c] \notin Transaction

(* No cascade, whether it commits, fails, crashes or races another one,    *)
(* takes the credentials of a resource that is still there.                *)
CredentialsOutliveNoOne ==
    \A a \in (Auths \cap born) \ auths : Owner[a] \notin live

(* Foreign keys hold at every commit, whatever the cascades interleave     *)
(* with: no application, endpoint or application authentication survives   *)
(* its parent.                                                             *)
NoOrphanRow ==
    /\ \A x \in live \cap (Apps \cup Endpoints) : SourceOf[x] \in live
    /\ \A x \in live \cap AppAuths : AppOf[x] \in live /\ AuthOf[x] \in auths

(* Events leave a cascade children first: the event of a row follows those *)
(* of every row below it, and the mutex keeps the events of credentials    *)
(* behind all of them.                                                     *)
ChildrenAnnouncedFirst ==
    \A c \in Cascades :
        /\ \A x \in found[c] \cap raised[c] :
               Dependents(x) \cap found[c] \subseteq raised[c]
        /\ raised[c] \cap Auths # {} => found[c] \subseteq raised[c]

(* The inductive invariant behind the properties above. First, what a      *)
(* transaction has found it has deleted, up to the statement it is at;     *)
(* once committed, none of it ever comes back; and a cascade only ever     *)
(* holds credentials of rows it has deleted.                               *)
CascadeOK(c) ==
    /\ found[c] \cup creds[c] \subseteq born
    /\ pc[c] \in Transaction \cup Cleanup =>
          /\ target[c] \in Targets
          /\ stage[c] \in First(target[c])..Last(target[c])
    /\ pc[c] \in Transaction => creds[c] = {} /\ raised[c] = {}
    /\ pc[c] \in {"find", "delete"} =>
          \A n \in 1..5 :
             /\ n < stage[c] => found[c] \cap Table[n] \cap live \subseteq dels[c]
             /\ n > stage[c] => found[c] \cap Table[n] = {}
    /\ pc[c] = "find" => found[c] \cap Table[stage[c]] = {}
    /\ pc[c] = "commit" => found[c] \cap live \subseteq dels[c]
    /\ pc[c] \notin Transaction => found[c] \cap live = {}
    /\ pc[c] \in {"idle", "failed"} => found[c] = {} /\ creds[c] = {} /\ raised[c] = {}
    /\ \A a \in creds[c] : Owner[a] \in found[c]
    /\ pc[c] \in {"raiseAuth", "done"} => creds[c] \cap auths = {}

BornOK ==
    /\ live \cup auths \subseteq born
    /\ pending \cap born = {}
    /\ \A a \in pending \cup (Auths \cap born) : Owner[a] \in born

Progress ==
    /\ BornOK
    /\ \A c \in Cascades : CascadeOK(c)

(* What a foreign key waits for: the rows that open transactions have       *)
(* deleted are still there for everyone else, no two transactions have     *)
(* deleted the same row, and a row goes with everything that refers to it. *)
LocksOK ==
    /\ \A c \in Cascades :
          /\ dels[c] \subseteq live
          /\ pc[c] \notin Transaction => dels[c] = {}
          /\ \A x \in dels[c] : Dependents(x) \cap live \subseteq dels[c]
    /\ \A c, d \in Cascades : c # d => dels[c] \cap dels[d] = {}

(* The finds of a transaction miss nothing that was there at the start: so *)
(* a foreign key removes no such row that is not in the slices. (But for   *)
(* the application authentications, which can go with their credential.)   *)
FindsOK(c) ==
    /\ found[c] \subseteq Selected(target[c])
    /\ dels[c] \ (Late \cup AppAuths) \subseteq found[c]
    /\ target[c] \notin Endpoints =>
          \A n \in 2..5 :
             \/ n < stage[c]
             \/ n = stage[c] /\ pc[c] # "find"
             => (Selected(target[c]) \cap Table[n] \cap live) \ Late \subseteq found[c]

(* The second goroutine waits for the first: it has raised all its events. *)
MutexOK(c) ==
    pc[c] \in {"list", "fetch", "wipe", "raiseAuth", "done"} => found[c] \subseteq raised[c]

CascadeInv ==
    /\ TypeOK /\ Progress /\ AnnouncedAreGone /\ CredentialsOutliveNoOne
    /\ LocksOK /\ NoOrphanRow
    /\ \A c \in Cascades : (pc[c] \in Transaction => FindsOK(c)) /\ MutexOK(c)

(* Every step of the cascades and of the requests next to them is a step,  *)
(* or a stutter, of the contract: the statements of a transaction and the  *)
(* order of the goroutines cannot be seen from outside.                    *)
ParentsOf == [x \in Rows |->
                 IF x \in Apps \cup Endpoints THEN {SourceOf[x]}
                 ELSE IF x \in AppAuths THEN {AppOf[x], AuthOf[x]}
                 ELSE {}]

Contract == INSTANCE DeletionContract WITH
                Parents <- ParentsOf, announced <- {e[2] : e \in topic}

ImplementsContract == Contract!Spec

(* Cascades do not wait on each other for ever: each one started ends.     *)
EveryCascadeEnds ==
    \A c \in Cascades : (pc[c] = "find") ~> (pc[c] \in {"done", "failed"})

(* When nothing fails, the credentials that existed before the cascade are *)
(* eventually deleted and announced once their resource is deleted.        *)
CredentialsEventuallyGone ==
    \A a \in Auths \ Late :
        (Owner[a] \notin live) ~> (a \notin auths /\ \E c \in Cascades : <<c, a>> \in topic)
=============================================================================
