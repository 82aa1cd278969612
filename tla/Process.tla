------------------------------- MODULE Process -------------------------------
(***************************************************************************)
(* One process of the program, from main to its end. What it is depends on *)
(* its configuration: the API server, the background worker or the status  *)
(* listener, a unit that main starts as a goroutine. One unbuffered        *)
(* channel, shutdown, carries the signal to the unit and its answer back.  *)
(* Under the unit runs what a mode looks at:                               *)
(*   lists, graphql, applications   a session, a query and the superkey    *)
(*                                  requests of the API server             *)
(*   worker                         the scheduled job of the worker        *)
(*   jobs                           its queue and its health               *)
(*   listener                       the same of the status listener        *)
(***************************************************************************)
EXTENDS Lists, GraphQL, Worker

CONSTANTS
    Here,            \* the background worker this process is
    MaxMessages,     \* the messages or jobs there are for this process
    HealthCapacity   \* the 10 of the health check channels

ASSUME ProcessAssumption ==
    /\ Here \in Jobs /\ MaxMessages \in Nat /\ HealthCapacity \in Nat \ {0}

VARIABLES
    proc,   \* main and its unit
    inbox,  \* the topic or the queue, and what the process took from it
    health  \* the health check

processVars == <<db, session, gql, workerVars, proc, inbox, health>>

Server == {"lists", "graphql", "applications"}
Modes  == Server \cup {"worker", "jobs", "listener"}

Alive == proc.exit = "none"

Started == Alive /\ proc.unit \notin {"starting", "failed"}

\* The modes that are not looked at have nothing to do.
InitProcess ==
    \E mode \in Modes :
      /\ proc = [mode |-> mode, main |-> "waiting", unit |-> "starting", exit |-> "none"]
      /\ inbox = [unread |-> IF mode \in {"jobs", "listener"} THEN MaxMessages ELSE 0,
                  handling |-> 0, closed |-> FALSE]
      /\ health = [beats |-> 0, producer |-> "ticking",
                   answer |-> IF mode = "listener" THEN "never" ELSE "recent"]
      /\ InitTables
      /\ IF mode = "lists" THEN \E q \in Requests : session = Session(q)
         ELSE \E q \in {CHOOSE q \in Requests : TRUE} :
                session = [Session(q) EXCEPT !.step = "done"]
      /\ IF mode = "graphql" THEN \E q \in Queries : gql = GraphQLQuery(q)
         ELSE \E q \in {CHOOSE q \in Queries : TRUE} :
                gql = [GraphQLQuery([q EXCEPT !.fields = {}]) EXCEPT !.status = "answered"]
      /\ InitWorker
      /\ mode \notin {"applications", "worker"} => \A a \in Apps : app[a].row = "gone"

-----------------------------------------------------------------------------
(* main and the channel.                                                    *)

\* A second signal stays in interrupts.
Signal ==
    /\ Alive /\ proc.main = "waiting"
    /\ proc' = [proc EXCEPT !.main = "sending"]
    /\ UNCHANGED <<db, session, gql, workerVars, inbox, health>>

\* runServer, Run of the worker, Run of the listener: until the unit waits for
\* the signal. The listener returns when its Kafka configuration is no good.
StartUnit ==
    /\ Alive /\ proc.unit = "starting"
    /\ \E configured \in BOOLEAN :
         /\ proc.mode # "listener" => configured
         /\ proc' = [proc EXCEPT !.unit = IF configured THEN "waiting" ELSE "failed"]
         /\ health' = IF proc.mode = "listener" /\ configured
                        THEN [health EXCEPT !.beats = 1] ELSE health
    /\ UNCHANGED <<db, session, gql, workerVars, inbox>>

\* What each unit does first about the signal.
SendShutdown ==
    /\ Alive /\ proc.main = "sending" /\ proc.unit = "waiting"
    /\ proc' = [proc EXCEPT !.main = "receiving",
                            !.unit = CASE proc.mode \in Server -> "draining"
                                       [] proc.mode = "listener" -> "closing"
                                       [] OTHER -> "sending"]
    /\ UNCHANGED <<db, session, gql, workerVars, inbox, health>>

InFlight ==
    \/ session.step \in {"parse", "primary", "count", "select"}
    \/ gql.status = "open"
    \/ proc.mode = "applications" /\ Undecided # {}

\* Mutant: Close in place of Shutdown.
DrainedAtOnce ==
    /\ Alive /\ proc.unit = "draining"
    /\ proc' = [proc EXCEPT !.unit = "sending"]
    /\ UNCHANGED <<db, session, gql, workerVars, inbox, health>>

\* e.Shutdown takes no more requests and returns when there are none.
Drained ==
    /\ Alive /\ proc.unit = "draining" /\ ~InFlight
    /\ proc' = [proc EXCEPT !.unit = "sending"]
    /\ UNCHANGED <<db, session, gql, workerVars, inbox, health>>

\* Mutant: the listener does not answer.
CloseReaderOnly ==
    /\ Alive /\ proc.unit = "closing"
    /\ proc' = [proc EXCEPT !.unit = "returned"]
    /\ inbox' = [inbox EXCEPT !.closed = TRUE]
    /\ UNCHANGED <<db, session, gql, workerVars, health>>

CloseReader ==
    /\ Alive /\ proc.unit = "closing"
    /\ proc' = [proc EXCEPT !.unit = "sending"]
    /\ inbox' = [inbox EXCEPT !.closed = TRUE]
    /\ UNCHANGED <<db, session, gql, workerVars, health>>

\* With the process end its goroutines and the transactions they hold.
Terminate(code) ==
    /\ proc' = [proc EXCEPT !.exit = code]
    /\ inbox' = [inbox EXCEPT !.handling = 0]
    /\ CASE proc.mode = "worker" -> StopWorker(Here)
         [] proc.mode = "applications" ->
              /\ asked' = [a \in Apps |-> IF asked[a] = "pending" THEN "dropped" ELSE asked[a]]
              /\ UNCHANGED <<app, posted, told, job, resends, rolled>>
         [] OTHER -> UNCHANGED workerVars
    /\ UNCHANGED <<db, session, gql, health>>

\* The answer; then CloseWriter and os.Exit(0).
ReceiveShutdown ==
    /\ Alive /\ proc.main = "receiving" /\ proc.unit = "sending"
    /\ Terminate("0")

\* The 20 seconds of e.Shutdown.
DrainTimeout == Alive /\ proc.unit = "draining" /\ InFlight /\ Terminate("1")

\* log.Fatal of the metrics server, which finds its port taken.
Fatal == Alive /\ proc.unit = "starting" /\ Terminate("1")

-----------------------------------------------------------------------------
(* What the process takes from its topic or queue, for good: an offset is   *)
(* committed, and a job popped, before it is handled.                       *)

Take(handling) ==
    /\ Started /\ inbox.unread > 0
    /\ inbox' = [inbox EXCEPT !.unread = @ - 1, !.handling = @ + handling]
    /\ UNCHANGED <<db, session, gql, workerVars, proc, health>>

\* Consume: ReadMessage, and a goroutine. After Close it reads no more.
Consume ==
    proc.mode = "listener" /\ ~inbox.closed /\ Take(1)

\* The loop of Run: a job that does not parse is dropped.
PopJob == proc.mode = "jobs" /\ \E parsed \in {0, 1} : Take(parsed)

\* RunJobAsync, ConsumeStatusMessage: see the modules of the jobs and of the
\* listener.
Handle ==
    /\ Alive /\ inbox.handling > 0
    /\ inbox' = [inbox EXCEPT !.handling = @ - 1]
    /\ UNCHANGED <<db, session, gql, workerVars, proc, health>>

-----------------------------------------------------------------------------
(* Health. answer: never, a beat in the last 30 seconds, or an older one.   *)

\* healthCheckProducer, every 30 seconds: a writer of its own; a message that
\* was not written is no beat, and without a writer it returns.
ProduceHealthcheck ==
    /\ Started /\ proc.mode = "listener"
    /\ health.producer = "ticking"
    /\ \/ health.beats < HealthCapacity /\ health' = [health EXCEPT !.beats = @ + 1]
       \/ health' = [health EXCEPT !.producer = "returned"]
    /\ UNCHANGED <<db, session, gql, workerVars, proc, inbox>>

\* healthcheckLoop: a ping.
PingValkey ==
    /\ Started /\ proc.mode = "jobs"
    /\ health.beats < HealthCapacity /\ health' = [health EXCEPT !.beats = @ + 1]
    /\ UNCHANGED <<db, session, gql, workerVars, proc, inbox>>

\* healthCheckConsumer.
ConsumeBeat ==
    /\ Started /\ health.beats > 0
    /\ health' = [health EXCEPT !.beats = @ - 1, !.answer = "recent"]
    /\ UNCHANGED <<db, session, gql, workerVars, proc, inbox>>

HealthCheckInterval ==
    /\ Started /\ proc.mode \in {"jobs", "listener"} /\ health.answer = "recent"
    /\ health' = [health EXCEPT !.answer = "old"]
    /\ UNCHANGED <<db, session, gql, workerVars, proc, inbox>>

-----------------------------------------------------------------------------
(* The units at work.                                                       *)

\* The server answers what it took; the next page is a new request.
AnswerLists ==
    /\ Started /\ proc.mode = "lists"
    /\ session.step = "answered" => proc.unit = "waiting"
    /\ Answering
    /\ UNCHANGED <<gql, workerVars, proc, inbox, health>>

AnswerQuery ==
    /\ Started /\ proc.mode = "graphql"
    /\ Resolving
    /\ UNCHANGED <<session, workerVars, proc, inbox, health>>

\* ApplicationCreate and CheckSuperkey are a request; its goroutine goes on while
\* there is a process.
ServeApplications ==
    /\ Started /\ proc.mode = "applications"
    /\ \E a \in Apps :
         \/ proc.unit = "waiting" /\ ApplicationCreate(a)
         \/ CheckSuperkey(a) \/ SendCreateRequest(a)
    /\ UNCHANGED <<db, session, gql, proc, inbox, health>>

RunScheduledJobs ==
    /\ Started /\ proc.mode = "worker"
    /\ RunJob(Here) \/ Rollback(Here)
    /\ UNCHANGED <<db, session, gql, proc, inbox, health>>

\* The other processes; before the unit runs, what they do is as good as done.
OtherProcesses ==
    /\ Started
    /\ \/ proc.mode = "lists" /\ Elsewhere /\ UNCHANGED <<gql, workerVars>>
       \/ proc.mode = "graphql" /\ Meanwhile /\ UNCHANGED <<session, workerVars>>
       \/ /\ proc.mode \in {"applications", "worker"} /\ UNCHANGED <<db, session, gql>>
          /\ \/ \E a \in Apps :
                  \/ proc.mode = "worker" /\ (ApplicationCreate(a) \/ CheckSuperkey(a))
                  \/ PostBack(a) \/ SetStatus(a) \/ ApplicationDelete(a) \/ Age(a)
             \/ \E j \in Jobs \ {Here} : proc.mode = "worker" /\ (RunJob(j) \/ Rollback(j))
    /\ UNCHANGED <<proc, inbox, health>>

Main == SendShutdown \/ ReceiveShutdown

Unit == StartUnit \/ Drained \/ CloseReader \/ DrainTimeout

Requested == AnswerLists \/ AnswerQuery

Background ==
    \/ ServeApplications \/ RunScheduledJobs \/ Consume \/ PopJob \/ Handle
    \/ ProduceHealthcheck \/ PingValkey \/ ConsumeBeat \/ HealthCheckInterval

NextProcess ==
    Signal \/ Fatal \/ Main \/ Unit \/ Requested \/ Background \/ OtherProcesses

SpecProcess == InitProcess /\ [][NextProcess]_processVars

-----------------------------------------------------------------------------
\* What a list, a get and a GraphQL query show (ListsInv, GraphInv): only rows
\* of the tenant and the user; a page as long as was counted, unless a row went
\* in between; and, loaded once for all resolvers of a query, every row below
\* the sources it lists.
QueriesInv == ListsInv /\ GraphInv

\* A process that ends well has handed the signal to its unit and waited for
\* it: no request is cut off and the reader is closed. However a worker ends,
\* its job holds no transaction any more. (What goroutines took is lost.)
GracefulExit ==
    /\ proc.mode \in Modes
    /\ proc.exit \in {"none", "0", "1"}
    /\ proc.exit = "0" =>
         /\ proc.main = "receiving" /\ ~InFlight
         /\ proc.mode = "listener" => inbox.closed
    /\ ~Alive /\ proc.mode = "worker" => job[Here].pc = "idle" /\ LockedBy(Here) = {}

\* A process that got a signal ends, if its unit could be started: an answer
\* that never comes holds it for 20 seconds only.
ShutdownEnds ==
    proc.main = "sending" /\ proc.unit # "failed" ~> ~Alive \/ proc.unit = "failed"

\* A query is answered, or its process ends.
QueryAnswered == Unanswered ~> gql.status = "answered" \/ ~Alive
=============================================================================
