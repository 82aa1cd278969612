-------------------------- MODULE SuperkeyDestroy --------------------------
(***************************************************************************)
(* The asynchronous deletion of superkey sources and applications: the     *)
(* request handlers that answer 202 and enqueue a job, the job list in     *)
(* Valkey, the background worker that pops a job and runs it in a          *)
(* goroutine, the two kinds of jobs, and the external superkey worker that *)
(* tears the cloud resources of an application down.                       *)
(*                                                                         *)
(* Jobs are popped before they run and never retried: a job is executed at *)
(* most once. Every goroutine runs next to the others, so the jobs of two  *)
(* requests interleave. DeleteCascade is one step here (its own steps are  *)
(* the subject of CascadeDelete); the deletion of the credential of a      *)
(* source follows it in a step of its own, as it does there.               *)
(***************************************************************************)
EXTENDS Naturals, Sequences, FiniteSets

CONSTANTS
    Sources, Apps,
    SourceOf,     \* applications.source_id
    UserOwned,    \* the applications whose user_id is set
    Absent,       \* the applications created while deletions run
    Incomplete,   \* the applications still being provisioned at the start
    Requestable,  \* what clients ask to delete
    Workers,      \* goroutines running a job at the same time (a bound)
    MaxRequests,  \* DELETE requests (a bound)
    ListLimit,    \* the page of applications a job handles, 100 in the code
    Prompt,       \* whether the superkey worker answers within 15 seconds
    MayFail       \* whether Kafka, Valkey and the database may fail

Rows == Sources \cup Apps

ASSUME SuperkeyAssumption ==
    /\ Sources \cap Apps = {}
    /\ SourceOf \in [Apps -> Sources]
    /\ UserOwned \subseteq Apps
    /\ Absent \subseteq Apps
    /\ Incomplete \subseteq Apps \ Absent
    /\ Requestable \subseteq Rows
    /\ MaxRequests \in Nat
    /\ ListLimit \in Nat
    /\ Prompt \in BOOLEAN
    /\ MayFail \in BOOLEAN

VARIABLES
    live,      \* the rows in the database
    keys,      \* the sources whose superkey credential is stored
    cloud,     \* the cloud resources of each application
    queue,     \* the list "sources_api_jobs"
    run,       \* what each goroutine of the worker is doing
    requests,  \* how many DELETE requests were answered
    accepted,  \* the resources whose deletion was answered with 202
    bypassed,  \* the applications whose teardown a swallowed error skipped
    clean      \* whether nothing failed and no deletion overtook another

vars == <<live, keys, cloud, queue, run, requests, accepted, bypassed, clean>>

-----------------------------------------------------------------------------
(* The cloud resources of an application. "up" is what superkey_data of    *)
(* the row describes; before that the row has none.                        *)
CloudStates == {"absent", "creating", "up", "asked", "torn", "leaked"}

Jobs == [kind : {"superkey", "destroy"}, id : Rows]

SuperkeyDestroyJob(x) == [kind |-> "superkey", id |-> x]
AsyncDestroyJob(x)    == [kind |-> "destroy", id |-> x]

Idle == [phase |-> "idle"]

(* todo: the applications a superkey job still has to ask for, or the      *)
(* requests a destroy job gives time to by sleeping.                       *)
Running == [phase : {"start", "apps"}, job : Jobs, todo : SUBSET Apps,
            failed : BOOLEAN]

AppsOf(s) == {a \in Apps : SourceOf[a] = s}

\* RPUSH; an error is only logged.
Enqueue(job) ==
    \/ queue' = Append(queue, job) /\ UNCHANGED clean
    \/ MayFail /\ queue' = queue /\ clean' = FALSE

\* Jobs load applications with no user: those of a user are not found.
Loadable(a) == a \in live /\ a \notin UserOwned

-----------------------------------------------------------------------------
Init ==
    /\ live = Rows \ Absent
    /\ keys = Sources
    /\ cloud = [a \in Apps |-> IF a \in Absent THEN "absent"
                               ELSE IF a \in Incomplete THEN "creating"
                               ELSE "up"]
    /\ queue = <<>>
    /\ run = [w \in Workers |-> Idle]
    /\ requests = 0
    /\ accepted = {}
    /\ bypassed = {}
    /\ clean = TRUE

\* SourceDelete and ApplicationDelete of a superkey resource: 202 Accepted.
Delete(x) ==
    /\ requests < MaxRequests
    /\ x \in Requestable \cap live
    /\ Enqueue(SuperkeyDestroyJob(x))
    /\ requests' = requests + 1
    /\ accepted' = accepted \cup {x}
    /\ UNCHANGED <<live, keys, cloud, run, bypassed>>

(* The same handlers when IsSuperkey, which reads an error of its query as  *)
(* "no": 204, the rows go at once and nothing is asked of anybody.         *)
DeleteDirectly(x) ==
    /\ MayFail
    /\ requests < MaxRequests
    /\ x \in Requestable \cap live
    /\ live' = live \ ({x} \cup AppsOf(x))
    /\ bypassed' = bypassed \cup (Apps \cap ({x} \cup AppsOf(x)))
    /\ requests' = requests + 1
    /\ clean' = FALSE
    /\ UNCHANGED <<keys, cloud, queue, run, accepted>>

\* Faulty variant: a destroy job that does not sleep.
PopWithoutDelay(w) ==
    /\ run[w] = Idle
    /\ queue # <<>>
    /\ run' = [run EXCEPT ![w] =
                 [phase |-> "start", job |-> Head(queue), failed |-> FALSE,
                  todo |-> {}]]
    /\ queue' = Tail(queue)
    /\ UNCHANGED <<live, keys, cloud, requests, accepted, bypassed, clean>>

\* BLPOP, Parse and RunJobAsync: the job leaves the list before it runs.
Pop(w) ==
    /\ run[w] = Idle
    /\ queue # <<>>
    /\ run' = [run EXCEPT ![w] =
                 [phase |-> "start", job |-> Head(queue), failed |-> FALSE,
                  todo |-> IF Head(queue).kind = "destroy"
                             THEN {a \in Apps : cloud[a] = "asked"} ELSE {}]]
    /\ queue' = Tail(queue)
    /\ UNCHANGED <<live, keys, cloud, requests, accepted, bypassed, clean>>

Starts(w, kind) ==
    /\ run[w].phase = "start"
    /\ run[w].job.kind = kind

(* The job ends: with an error that is only logged, when it is done, or     *)
(* because the process stops.                                               *)
Abort(w) ==
    /\ MayFail
    /\ run[w] # Idle
    /\ run' = [run EXCEPT ![w] = Idle]
    /\ clean' = FALSE
    /\ UNCHANGED <<live, keys, cloud, queue, requests, accepted, bypassed>>

(* SuperkeyDestroyJob.Run: the applications it is about. For a source the   *)
(* first page of those that belong to no user.                              *)
ListApplications(w) ==
    /\ Starts(w, "superkey")
    /\ LET x    == run[w].job.id
           here == {a \in AppsOf(x) : Loadable(a)}
       IN  \E page \in (IF x \in Apps THEN {{x}} ELSE SUBSET here) :
             /\ x \in Sources => \/ page = here /\ Cardinality(here) <= ListLimit
                                 \/ Cardinality(page) = ListLimit
             /\ run' = [run EXCEPT ![w].phase = "apps", ![w].todo = page]
    /\ UNCHANGED <<live, keys, cloud, queue, requests, accepted, bypassed, clean>>

\* Faulty variant: a failed request is ignored and the rows go all the same.
SendForApplicationIgnoringErrors(w, a) ==
    /\ run[w].phase = "apps"
    /\ a \in run[w].todo
    /\ \/ /\ MayFail
          /\ UNCHANGED cloud
       \/ /\ Loadable(a)
          /\ cloud' = IF cloud[a] = "up" /\ SourceOf[a] \in keys
                        THEN [cloud EXCEPT ![a] = "asked"] ELSE cloud
    /\ Enqueue(AsyncDestroyJob(a))
    /\ run' = [run EXCEPT ![w].todo = @ \ {a}]
    /\ UNCHANGED <<live, keys, requests, accepted, bypassed>>

(* sendForApplication. An application that cannot be loaded, its metadata   *)
(* and a request that cannot be sent are errors. One without superkey data, *)
(* or whose source has no superkey credential, is "incomplete" and is       *)
(* destroyed without a request: and so is one whose credential could not be *)
(* looked up, because the error of that lookup is swallowed.                *)
SendForApplication(w, a) ==
    /\ run[w].phase = "apps"
    /\ a \in run[w].todo
    /\ \/ /\ ~Loadable(a) \/ MayFail
          /\ run' = [run EXCEPT ![w].todo = @ \ {a}, ![w].failed = TRUE]
          /\ clean' = (clean /\ ~MayFail /\ a \in live)
          /\ UNCHANGED <<cloud, queue, bypassed>>
       \/ /\ Loadable(a)
          /\ cloud' = IF cloud[a] = "up" /\ SourceOf[a] \in keys
                        THEN [cloud EXCEPT ![a] = "asked"] ELSE cloud
          /\ Enqueue(AsyncDestroyJob(a))
          /\ run' = [run EXCEPT ![w].todo = @ \ {a}]
          /\ UNCHANGED bypassed
       \/ /\ Loadable(a) /\ MayFail
          /\ bypassed' = bypassed \cup {a}
          /\ queue' \in {queue, Append(queue, AsyncDestroyJob(a))}
          /\ clean' = FALSE
          /\ run' = [run EXCEPT ![w].todo = @ \ {a}]
          /\ UNCHANGED cloud
    /\ UNCHANGED <<live, keys, requests, accepted>>

\* Faulty variant: the destruction of the source is never enqueued.
EndSuperkeyJobForgetful(w) ==
    /\ run[w].phase = "apps"
    /\ run[w].todo = {}
    /\ run' = [run EXCEPT ![w] = Idle]
    /\ UNCHANGED <<live, keys, cloud, queue, requests, accepted, bypassed, clean>>

(* The end of a superkey job. That of a source enqueues the destruction of  *)
(* the source unless a request for one of its applications failed.          *)
EndSuperkeyJob(w) ==
    /\ run[w].phase = "apps"
    /\ run[w].todo = {}
    /\ IF run[w].job.id \in Sources /\ ~run[w].failed
         THEN Enqueue(AsyncDestroyJob(run[w].job.id))
         ELSE UNCHANGED <<queue, clean>>
    /\ run' = [run EXCEPT ![w] = Idle]
    /\ UNCHANGED <<live, keys, cloud, requests, accepted, bypassed>>

(* AsyncDestroyJob.Run, after its 15 seconds: DeleteCascade with no user.   *)
(* What is already gone is an error, which is only logged.                  *)
RunDestroy(w) ==
    /\ Starts(w, "destroy")
    /\ Prompt => \A a \in run[w].todo : cloud[a] # "asked"
    /\ live' = live \ ({run[w].job.id} \cup AppsOf(run[w].job.id))
    /\ run' = [run EXCEPT ![w] = Idle]
    /\ UNCHANGED <<keys, cloud, queue, requests, accepted, bypassed, clean>>

\* The credential cleanup at the end of DeleteCascade.
DeleteKey(s) ==
    /\ s \in keys \ live
    /\ keys' = keys \ {s}
    /\ UNCHANGED <<live, cloud, queue, run, requests, accepted, bypassed, clean>>

-----------------------------------------------------------------------------
(* ApplicationCreate on a superkey source: the create request goes out in  *)
(* a goroutine and the row has no superkey_data yet.                       *)
CreateApplication(a) ==
    /\ cloud[a] = "absent"
    /\ SourceOf[a] \in live
    /\ live' = live \cup {a}
    /\ cloud' = [cloud EXCEPT ![a] = "creating"]
    /\ UNCHANGED <<keys, queue, run, requests, accepted, bypassed, clean>>

\* The superkey worker has created the resources and reports them.
Provision(a) ==
    /\ cloud[a] = "creating"
    /\ cloud' = [cloud EXCEPT ![a] = IF a \in live THEN "up" ELSE "leaked"]
    /\ UNCHANGED <<live, keys, queue, run, requests, accepted, bypassed, clean>>

\* It handles a destroy request with the superkey credential, if it finds it.
TearDown(a) ==
    /\ cloud[a] = "asked"
    /\ cloud' = [cloud EXCEPT ![a] =
                    IF SourceOf[a] \in keys THEN "torn" ELSE "leaked"]
    /\ UNCHANGED <<live, keys, queue, run, requests, accepted, bypassed, clean>>

-----------------------------------------------------------------------------
JobStep(w) ==
    \/ Pop(w) \/ ListApplications(w) \/ EndSuperkeyJob(w) \/ RunDestroy(w)
    \/ \E a \in Apps : SendForApplication(w, a)

\* Nothing is queued, running or expected from the superkey worker.
Resting ==
    /\ queue = <<>>
    /\ \A w \in Workers : run[w] = Idle
    /\ UNCHANGED vars

Next ==
    \/ \E x \in Rows : Delete(x) \/ DeleteDirectly(x)
    \/ \E w \in Workers : JobStep(w) \/ Abort(w)
    \/ \E s \in Sources : DeleteKey(s)
    \/ \E a \in Apps : CreateApplication(a) \/ Provision(a) \/ TearDown(a)
    \/ Resting

Spec == Init /\ [][Next]_vars

(* The worker loop never stops popping and the runtime schedules every     *)
(* goroutine; the superkey worker answers what it is asked.                *)
FairSpec ==
    /\ Spec
    /\ \A w \in Workers : WF_vars(JobStep(w))
    /\ \A s \in Sources : WF_vars(DeleteKey(s))
    /\ \A a \in Apps : WF_vars(TearDown(a)) /\ WF_vars(Provision(a))

-----------------------------------------------------------------------------
TypeOK ==
    /\ live \subseteq Rows
    /\ keys \subseteq Sources
    /\ cloud \in [Apps -> CloudStates]
    /\ queue \in Seq(Jobs)
    /\ run \in [Workers -> Running \cup {Idle}]
    /\ requests \in 0..MaxRequests
    /\ accepted \subseteq Requestable
    /\ bypassed \subseteq Apps

(* The applications the guarantees are about. One created or provisioned    *)
(* after a job listed them has no superkey data to ask with, and one of a   *)
(* user is not found by the job: those are deleted unasked.                *)
Settled == Apps \ (Absent \cup Incomplete \cup UserOwned)

(* ... but for those that a swallowed error has bypassed: nothing is        *)
(* promised of them any more.                                              *)
Guarded == Settled \ bypassed

(* "we enqueue a job that tells the superkey worker to tear down the cloud *)
(* resources first, then cascade-deletes the DB records"                   *)
(* (superkey_handlers.go:14): the row that describes provisioned resources *)
(* never disappears before the superkey worker was asked for them. Lost    *)
(* jobs, failed requests and repeated deletions included, unless the error  *)
(* was one that the code swallows.                                         *)
AskedBeforeDeleted == \A a \in Guarded \ live : cloud[a] # "up"

(* A source is not destroyed by a job that failed to ask for one of its    *)
(* applications, other than one it bypassed: while an application was not   *)
(* asked for, there is no destroy job for it or for its source anywhere.    *)
NoDestroyWithoutRequest ==
    \A a \in Guarded : cloud[a] = "up" =>
        \A x \in {a, SourceOf[a]} :
            /\ \A i \in 1..Len(queue) : queue[i] # AsyncDestroyJob(x)
            /\ \A w \in Workers : run[w] # Idle => run[w].job # AsyncDestroyJob(x)

(* Nothing provisioned before the deletions is left behind in the cloud:    *)
(* the credential of the source outlives the requests that need it, also   *)
(* when another application of the source was bypassed.                    *)
NothingLeaks == \A a \in Guarded : cloud[a] # "leaked"

(* The rows and the credentials the jobs rely on: a credential goes after   *)
(* its source, and no source before its applications.                      *)
KeysOutliveSources ==
    /\ live \cap Sources \subseteq keys
    /\ \A a \in live \cap Apps : SourceOf[a] \in live

(* A superkey job has asked for every application it no longer has to do,   *)
(* or it has failed. What was provisioned at the start is never absent.    *)
Asks(w) ==
    run[w].phase = "apps" =>
        /\ run[w].job.kind = "superkey"
        /\ run[w].failed \/ \A a \in Guarded :
              SourceOf[a] = run[w].job.id /\ cloud[a] = "up" => a \in run[w].todo

JobsAsk ==
    /\ \A a \in Settled : cloud[a] \notin {"absent", "creating"}
    /\ \A w \in Workers : Asks(w)

(* What was asked for is torn down before the source goes: a job that       *)
(* destroys the source sleeps for it.                                      *)
JobsWait ==
    \A a \in Guarded : cloud[a] = "asked" =>
        /\ SourceOf[a] \in live
        /\ \A w \in Workers : Starts(w, "destroy") /\ run[w].job.id = SourceOf[a] =>
              a \in run[w].todo

(* Only a failure makes the code forget an application.                    *)
BypassedByFailure == clean => bypassed = {}

(* All of it, of every state that overlapping and failing deletions reach. *)
SuperkeyInv ==
    /\ TypeOK /\ BypassedByFailure /\ AskedBeforeDeleted /\ NoDestroyWithoutRequest
    /\ KeysOutliveSources /\ JobsAsk
    /\ Prompt => JobsWait

(* "the delete has been accepted but will complete asynchronously"         *)
(* (superkey_handlers.go:19): what a client was told is eventually done,    *)
(* unless something failed or an application of the source went first.     *)
AcceptedCompletes == \A x \in Rows : (x \in accepted) ~> (x \notin live \/ ~clean)

(* ... and so is the teardown of the applications that were there when the *)
(* deletion of their source was accepted.                                  *)
AcceptedTearsDown ==
    \A s \in Sources, a \in Settled :
        (s \in accepted /\ SourceOf[a] = s /\ cloud[a] = "up")
            ~> (cloud[a] = "torn" \/ ~clean)
=============================================================================
