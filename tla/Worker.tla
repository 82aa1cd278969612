-------------------------------- MODULE Worker --------------------------------
(***************************************************************************)
(* What happens to an application after it is created: the request to the  *)
(* superkey worker, which a goroutine of the API sends, and the scheduled  *)
(* job of the background workers, which sends the create messages again    *)
(* for applications that did not become available within half an hour.     *)
(* The job runs in one transaction, the messages leave by goroutines of    *)
(* their own. Every background worker (Jobs) runs the job.                 *)
(***************************************************************************)
EXTENDS Integers, FiniteSets

CONSTANTS
    Apps,       \* the applications that may be created
    Superkey,   \* those of a source with the workflow account_authorization
    UserOwned,  \* those with a user_id
    OptedIn,    \* those whose type has retry_source_creation
    Amazon,     \* those of a source of the provider amazon, with its metadata
    WithKey,    \* those whose source has the superkey authentication
    Jobs,       \* the background workers
    RetryMax,
    MaxRollbacks

ASSUME WorkerAssumption ==
    /\ RetryMax \in Nat /\ MaxRollbacks \in Nat
    /\ IsFiniteSet(Jobs) /\ Jobs # {}
    /\ Superkey \cup UserOwned \cup OptedIn \cup WithKey \subseteq Apps

VARIABLES
    app,      \* the rows of the applications
    asked,    \* what became of the request to the superkey worker
    posted,   \* the applications it posted back for
    told,     \* the Application.create events, per sender
    job,      \* the run of each background worker
    resends,  \* its goroutines that have yet to send
    rolled    \* the runs that rolled back after they picked an application

workerVars == <<app, asked, posted, told, job, resends, rolled>>

Idle == [pc |-> "idle", settled |-> {}, picked |-> {}]

InitWorker ==
    /\ \E created \in SUBSET Apps : app =
         [a \in Apps |-> [row |-> IF a \in created THEN "new" ELSE "gone",
                         available |-> FALSE, young |-> TRUE, counter |-> 0]]
    /\ asked = [a \in Apps |-> "none"]
    /\ posted = {}
    /\ told = [by \in {"api", "retry"} |-> [a \in Apps |-> 0]]
    /\ job = [j \in Jobs |-> Idle]
    /\ resends = [j \in Jobs |-> [a \in Apps |-> 0]]
    /\ rolled = [a \in Apps |-> 0]

\* "no": taken for an application without a superkey.
AskedStates == {"none", "unsure", "no", "pending", "sent", "dropped"}

There(a) == app[a].row = "there"

\* The rows a transaction updated and did not commit.
LockedBy(j) ==
    job[j].settled \cup IF job[j].pc = "counted" THEN job[j].picked ELSE {}

Locked(a) == \E j \in Jobs : a \in LockedBy(j)

Tell(by, a) == told' = [told EXCEPT ![by][a] = @ + 1]

-----------------------------------------------------------------------------
(* The API.                                                                 *)

\* The row is inserted; whether it is announced or asked for, a second query says.
ApplicationCreate(a) ==
    /\ app[a].row = "new"
    /\ app' = [app EXCEPT ![a].row = "there"]
    /\ asked' = [asked EXCEPT ![a] = "unsure"]
    /\ UNCHANGED <<posted, told, job, resends, rolled>>

\* What the query may answer: any error of it, and a row that went, mean no.
IsSuperkey(a) == {(a \in Superkey /\ There(a)), FALSE}

\* A superkey application is not announced but asked for, asynchronously.
CheckSuperkey(a) ==
    /\ asked[a] = "unsure"
    /\ \E superkey \in IsSuperkey(a) :
         /\ asked' = [asked EXCEPT ![a] = IF superkey THEN "pending" ELSE "no"]
         /\ IF superkey THEN UNCHANGED told ELSE Tell("api", a)
    /\ UNCHANGED <<app, posted, job, resends, rolled>>

\* loadApplication: as a request without a user.
LoadApplication(a) == There(a) /\ a \notin UserOwned

\* getExtraValues, getSuperKeyAuthentication.
GetExtraValues(a) == a \in Amazon

GetSuperKeyAuthentication(a) == a \in WithKey

\* An error, of Kafka too, is logged and the request forgotten.
SendCreateRequest(a) ==
    /\ asked[a] = "pending"
    /\ \E sent \in BOOLEAN :
         asked' = [asked EXCEPT ![a] =
           IF sent /\ LoadApplication(a) /\ GetExtraValues(a) /\ GetSuperKeyAuthentication(a)
             THEN "sent" ELSE "dropped"]
    /\ UNCHANGED <<app, posted, told, job, resends, rolled>>

\* The superkey worker posts back: ApplicationEdit with _superkey raises
\* Application.create in place of the update, if IsSuperkey says yes.
PostBack(a) ==
    /\ asked[a] = "sent" /\ a \notin posted /\ There(a) /\ ~Locked(a)
    /\ posted' = posted \cup {a}
    /\ \E superkey \in IsSuperkey(a) : IF superkey THEN Tell("api", a) ELSE UNCHANGED told
    /\ UNCHANGED <<app, asked, job, resends, rolled>>

\* The status listener.
SetStatus(a) ==
    /\ There(a) /\ ~Locked(a)
    /\ app' = [app EXCEPT ![a].available = ~@]
    /\ UNCHANGED <<asked, posted, told, job, resends, rolled>>

ApplicationDelete(a) ==
    /\ There(a) /\ ~Locked(a)
    /\ app' = [app EXCEPT ![a].row = "gone"]
    /\ UNCHANGED <<asked, posted, told, job, resends, rolled>>

\* RecordAgeLimit.
Age(a) ==
    /\ There(a) /\ app[a].young
    /\ app' = [app EXCEPT ![a].young = FALSE]
    /\ UNCHANGED <<asked, posted, told, job, resends, rolled>>

-----------------------------------------------------------------------------
(* RetryCreateJob.                                                          *)

\* First statement: applications that became available are done.
SettleAvailable(j) ==
    LET done == {a \in Apps : /\ There(a) /\ app[a].available
                              /\ app[a].counter < RetryMax}
    IN  /\ job[j].pc = "idle" /\ \A a \in done : ~Locked(a)
        /\ job' = [job EXCEPT ![j] = [pc |-> "settled", settled |-> done, picked |-> {}]]
        /\ UNCHANGED <<app, asked, posted, told, resends, rolled>>

\* Mutant: however often it was retried.
RetryableForEver(j) ==
    {a \in Apps \ job[j].settled : There(a) /\ ~app[a].available /\ app[a].young}

\* What the second statement selects, of committed rows and its own.
Retryable(j) ==
    {a \in Apps \ job[j].settled :
       /\ There(a) /\ ~app[a].available
       /\ app[a].young /\ app[a].counter < RetryMax}

\* Second statement, and a goroutine for each application.
PickRetryable(j) ==
    /\ job[j].pc = "settled"
    /\ job' = [job EXCEPT ![j] = [pc      |-> IF Retryable(j) = {} THEN "counted" ELSE "picked",
                                  settled |-> @.settled, picked  |-> Retryable(j)]]
    /\ resends' = [resends EXCEPT ![j] =
                     [a \in Apps |-> @[a] + IF a \in Retryable(j) THEN 1 ELSE 0]]
    /\ UNCHANGED <<app, asked, posted, told, rolled>>

\* Third statement: waits for the rows another worker has updated.
CountRetry(j) ==
    /\ job[j].pc = "picked" /\ \A a \in job[j].picked : ~Locked(a)
    /\ job' = [job EXCEPT ![j].pc = "counted"]
    /\ UNCHANGED <<app, asked, posted, told, resends, rolled>>

Commit(j) ==
    /\ job[j].pc = "counted"
    /\ app' = [a \in Apps |->
                 [app[a] EXCEPT !.counter = IF a \in job[j].settled THEN RetryMax
                                            ELSE IF a \in job[j].picked /\ There(a) THEN @ + 1
                                            ELSE @]]
    /\ job' = [job EXCEPT ![j] = Idle]
    /\ UNCHANGED <<asked, posted, told, resends, rolled>>

\* A statement or the commit fails, or the process ends: what the goroutines
\* send is not counted.
Undo(j) ==
    /\ job' = [job EXCEPT ![j] = Idle]
    /\ rolled' = [a \in Apps |-> rolled[a] + IF a \in job[j].picked THEN 1 ELSE 0]

Rollback(j) ==
    /\ job[j].pc # "idle" /\ \A a \in Apps : rolled[a] < MaxRollbacks
    /\ Undo(j)
    /\ UNCHANGED <<app, asked, posted, told, resends>>

\* Any error on the way and nothing is sent. The application is loaded as by a
\* request without a user.
ResendCreateMessages(j, a) ==
    /\ resends[j][a] > 0
    /\ resends' = [resends EXCEPT ![j][a] = @ - 1]
    /\ IF a \in OptedIn /\ LoadApplication(a) THEN Tell("retry", a) ELSE UNCHANGED told
    /\ UNCHANGED <<app, asked, posted, job, rolled>>

\* The process of a background worker stops.
StopWorker(j) ==
    /\ resends' = [resends EXCEPT ![j] = [a \in Apps |-> 0]]
    /\ Undo(j)
    /\ UNCHANGED <<app, asked, posted, told>>

-----------------------------------------------------------------------------
RunJob(j) ==
    \/ SettleAvailable(j) \/ PickRetryable(j) \/ CountRetry(j) \/ Commit(j)
    \/ \E a \in Apps : ResendCreateMessages(j, a)

Resends(a) == UNION {{j} \X (1..resends[j][a]) : j \in Jobs}

\* The requests that inserted and have not asked yet what they inserted.
Undecided == {a \in Apps : asked[a] = "unsure"}

Picking(a) == {j \in Jobs : a \in job[j].picked}

AppRow == [row : {"new", "there", "gone"}, available : BOOLEAN, young : BOOLEAN,
           counter : Nat]

Run == [pc : {"idle", "settled", "picked", "counted"}, settled : SUBSET Apps,
        picked : SUBSET Apps]

WorkerTypes ==
    /\ app \in [Apps -> AppRow]
    /\ asked \in [Apps -> AskedStates]
    /\ posted \subseteq Apps
    /\ told \in [{"api", "retry"} -> [Apps -> Nat]]
    /\ job \in [Jobs -> Run]
    /\ resends \in [Jobs -> [Apps -> Nat]]
    /\ rolled \in [Apps -> Nat]

\* What a run has updated is its own, and still as it was selected.
JobsOK ==
    /\ \A j \in Jobs :
         /\ job[j].pc = "idle" => job[j].settled = {}
         /\ job[j].pc \in {"idle", "settled"} => job[j].picked = {}
         /\ job[j].settled \cap job[j].picked = {}
         /\ \A a \in job[j].settled : app[a].counter < RetryMax
         /\ \A a \in job[j].settled \cup job[j].picked : app[a].row # "new"
    /\ \A j, k \in Jobs : j # k => LockedBy(j) \cap LockedBy(k) = {}

\* The API announces an application at most once: one of a superkey source after
\* the superkey worker posted back or, when IsSuperkey failed, never having asked
\* the superkey worker for anything.
Announced(a) ==
    /\ told["api"][a] <= IF asked[a] = "no" \/ a \in posted THEN 1 ELSE 0
    /\ a \in posted => asked[a] = "sent"
    /\ app[a].row = "new" => asked[a] = "none"

\* What the job sends is counted, and bounded: as long as an application is
\* there, it is announced again at most once for every count, for every run
\* under way and for every run that rolled back; the count passes RetryMax only
\* by the runs that read it at the same time. The API announces each once (the
\* job announces one of a superkey source before it was asked for, too), and
\* neither reaches an application of a user.
WorkerInv ==
    /\ WorkerTypes /\ JobsOK
    /\ \A a \in Apps :
         /\ app[a].counter + Cardinality(Picking(a)) <= RetryMax + Cardinality(Jobs) - 1
         /\ app[a].row # "gone" => told["retry"][a] + Cardinality(Resends(a))
              <= app[a].counter + rolled[a] + Cardinality(Picking(a))
         /\ Announced(a)
         /\ a \in UserOwned => asked[a] # "sent" /\ told["retry"][a] = 0
=============================================================================
