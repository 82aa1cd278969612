--------------------------- MODULE StatusListener ---------------------------
(***************************************************************************)
(* The status listener: availability reports are read from Kafka and each  *)
(* is handled by a goroutine of its own, so the reports of one resource    *)
(* overlap and overtake each other. The offset is committed when a message *)
(* is read: what a crash interrupts is not handled again.                  *)
(*                                                                         *)
(* A handler is a series of database statements outside of any             *)
(* transaction: it reads the previous status, updates the row, reads it    *)
(* back, propagates the status of an application to its source, mails the  *)
(* change and raises two events whose payload is read once more.           *)
(* Every delay and fault of the handler is here; requests that edit the    *)
(* same rows are in ResourceEdit.                                          *)
(***************************************************************************)
EXTENDS Naturals, Sequences

CONSTANTS
    Sources, Apps, Endpoints, Auths,
    SourceOf,    \* source_id of the three others
    UserOwned,   \* the rows whose user_id is set
    Statuses,    \* availability_status
    Initial,     \* the status of every row at the start
    Messages,    \* handlers, one per message
    Reports,     \* what is reported: records with an id and a status
    Nil,
    MayFail      \* whether the database, Kafka and the process may fail

Resources == Sources \cup Apps \cup Endpoints \cup Auths

ASSUME ListenerAssumption ==
    /\ Sources \cap (Apps \cup Endpoints \cup Auths) = {}
    /\ Apps \cap (Endpoints \cup Auths) = {} /\ Endpoints \cap Auths = {}
    /\ SourceOf \in [Resources \ Sources -> Sources]
    /\ UserOwned \subseteq Resources \ Endpoints
    /\ Initial \in Statuses
    /\ Nil \notin Statuses \cup Resources
    /\ Nil \notin Reports /\ \A r \in Reports : r.id \in Resources
    /\ MayFail \in BOOLEAN

VARIABLES
    live,     \* the rows there are
    status,   \* their availability_status
    pc,       \* where each handler is
    report,   \* the message it handles
    prev,     \* previousStatus
    record,   \* the status in resultRecord, then in the application read again
    payload,  \* the event it is about to write
    mails,    \* the notifications about each resource, in order
    latest,   \* history: what the last mail about a source or its applications says
    stream,   \* the events about each resource, in order
    serial,   \* history: no two handlers have overlapped
    clean     \* history: nothing failed, crashed or was removed

vars == <<live, status, pc, report, prev, record, payload, mails, latest, stream,
          serial, clean>>

sent == <<mails, latest, stream>>
data == <<live, status, sent>>

-----------------------------------------------------------------------------
Busy   == {"previous", "update", "reread", "application", "propagate", "mail",
           "build", "publish", "bulk", "publishBulk"}
Ended  == {"done", "lost"}
Event  == [kind : {"update", "records"}, about : Resources \cup {Nil},
           status : Statuses \cup {Nil}]
NoEvent == [kind |-> "update", about |-> Nil, status |-> Nil]

\* The listener has no user: it selects the rows that belong to none.
Visible(x) == x \in live /\ x \notin UserOwned

SourceFor(x) == IF x \in Sources THEN x ELSE SourceOf[x]

Go(m, where) == pc' = [pc EXCEPT ![m] = where]

-----------------------------------------------------------------------------
Init ==
    /\ live = Resources
    /\ status = [x \in Resources |-> Initial]
    /\ pc = [m \in Messages |-> "idle"]
    /\ report = [m \in Messages |-> Nil]
    /\ prev = [m \in Messages |-> Nil]
    /\ record = [m \in Messages |-> Nil]
    /\ payload = [m \in Messages |-> NoEvent]
    /\ mails = [x \in Resources |-> <<>>]
    /\ latest = [s \in Sources |-> Initial]
    /\ stream = [x \in Resources |-> <<>>]
    /\ serial = TRUE
    /\ clean = TRUE

(* ReadMessage commits the offset, the handler starts. A status that is     *)
(* none of AvailabilityStatuses is refused.                                *)
Receive(m, r) ==
    /\ pc[m] = "idle"
    /\ report' = [report EXCEPT ![m] = r]
    /\ Go(m, IF r.status \in Statuses THEN "previous" ELSE "done")
    /\ serial' = (serial /\ \A n \in Messages : pc[n] \notin Busy)
    /\ UNCHANGED <<data, prev, record, payload, clean>>

\* GetAvailabilityStatusFromStatusMessage, a query before the update.
ReadPrevious(m) ==
    LET x == report[m].id
    IN  /\ pc[m] = "previous"
        /\ IF Visible(x)
             THEN prev' = [prev EXCEPT ![m] = status[x]] /\ Go(m, "update")
             ELSE prev' = prev /\ Go(m, "done")
        /\ UNCHANGED <<data, report, record, payload, serial, clean>>

(* The UPDATE of FetchAndUpdateBy: no row is an error for all but           *)
(* authentications, which were read before in the same call.               *)
Update(m) ==
    LET x == report[m].id
    IN  /\ pc[m] = "update"
        /\ status' = IF x \in live THEN [status EXCEPT ![x] = report[m].status]
                                   ELSE status
        /\ Go(m, IF x \in live \cup Auths THEN "reread" ELSE "done")
        /\ UNCHANGED <<live, report, prev, record, payload, sent, serial, clean>>

(* The record FetchAndUpdateBy returns: the row read back, or the struct of *)
(* an authentication with its source, which must be visible.               *)
Reread(m) ==
    LET x == report[m].id
    IN  /\ pc[m] = "reread"
        /\ record' = [record EXCEPT ![m] =
                        IF x \in Auths THEN report[m].status ELSE status[x]]
        /\ Go(m, IF ~Visible(IF x \in Auths THEN SourceOf[x] ELSE x) THEN "done"
                 ELSE IF prev[m] = report[m].status THEN "build"
                 ELSE IF x \in Apps THEN "application" ELSE "mail")
        /\ UNCHANGED <<data, report, prev, payload, serial, clean>>

(* The application is read again. Its status goes to the source if it       *)
(* differs from the previous one by now; the mail keeps the first record.  *)
ReadApplication(m) ==
    LET x == report[m].id
    IN  /\ pc[m] = "application"
        /\ payload' = [payload EXCEPT ![m] = [NoEvent EXCEPT !.status = status[x]]]
        /\ Go(m, IF x \notin live THEN "done"
                 ELSE IF prev[m] = status[x] THEN "mail" ELSE "propagate")
        /\ UNCHANGED <<data, report, prev, record, serial, clean>>

\* Faulty variant: the previous status is propagated.
PropagatePrevious(m) ==
    LET s == SourceOf[report[m].id]
    IN  /\ pc[m] = "propagate"
        /\ status' = IF Visible(s) THEN [status EXCEPT ![s] = prev[m]]
                                   ELSE status
        /\ Go(m, "mail")
        /\ UNCHANGED <<live, report, prev, record, payload, sent, serial, clean>>

\* Faulty variant: a source that is not updated is an error.
PropagateOrStop(m) ==
    LET s == SourceOf[report[m].id]
    IN  /\ pc[m] = "propagate"
        /\ status' = IF Visible(s) THEN [status EXCEPT ![s] = payload[m].status]
                                   ELSE status
        /\ Go(m, IF Visible(s) THEN "mail" ELSE "done")
        /\ UNCHANGED <<live, report, prev, record, payload, sent, serial, clean>>

\* UpdateSourceFromApplicationAvailabilityStatus. It raises no event.
Propagate(m) ==
    LET s == SourceOf[report[m].id]
    IN  /\ pc[m] = "propagate"
        /\ status' = IF Visible(s) THEN [status EXCEPT ![s] = payload[m].status]
                                   ELSE status
        /\ Go(m, "mail")
        /\ UNCHANGED <<live, report, prev, record, payload, sent, serial, clean>>

Mail(m) ==
    /\ pc[m] = "mail"
    /\ LET x == report[m].id
       IN  /\ mails' = [mails EXCEPT ![x] =
                          Append(@, [from |-> prev[m], to |-> record[m]])]
           /\ latest' = IF x \in Sources \cup Apps
                          THEN [latest EXCEPT ![SourceFor(x)] = record[m]] ELSE latest
    /\ Go(m, "build")
    /\ UNCHANGED <<live, status, report, prev, record, payload, stream, serial,
                   clean>>

(* ToEventJSON of the "X.update" event. FindWithTenant is a Find: a row     *)
(* that is gone is an empty struct, not an error.                          *)
BuildUpdate(m) ==
    LET x == report[m].id
    IN  /\ pc[m] = "build"
        /\ payload' = [payload EXCEPT ![m] =
                         [kind |-> "update", about |-> IF x \in live THEN x ELSE Nil,
                          status |-> IF x \in live THEN status[x] ELSE Nil]]
        /\ Go(m, IF x \in Auths \ live THEN "done" ELSE "publish")
        /\ UNCHANGED <<data, report, prev, record, serial, clean>>

(* BulkMessage of the "Records.update" event, with the source of the        *)
(* resource and a listing of its authentications, which finds none and ends *)
(* the handler when the resource is gone. An authentication is read without *)
(* its source: the query for a source with no id is answered by the first   *)
(* of the table, and the listing fails if that is of another tenant.        *)
BuildRecords(m) ==
    LET x == report[m].id
    IN  /\ pc[m] = "bulk"
        /\ \/ /\ x \in live
              /\ \E s \in IF x \in Auths THEN Sources ELSE {SourceFor(x)} :
                   /\ s \in live
                   /\ payload' = [payload EXCEPT ![m] =
                                    [kind |-> "records", about |-> s, status |-> status[s]]]
              /\ Go(m, "publishBulk")
           \/ /\ x \notin live \/ x \in Auths
              /\ Go(m, "done")
              /\ payload' = payload
        /\ UNCHANGED <<data, report, prev, record, serial, clean>>

\* EventStreamSender.RaiseEvent, after either.
Publish(m) ==
    /\ pc[m] \in {"publish", "publishBulk"}
    /\ stream' = [stream EXCEPT ![report[m].id] = Append(@, payload[m])]
    /\ Go(m, IF pc[m] = "publish" THEN "bulk" ELSE "done")
    /\ UNCHANGED <<live, status, report, prev, record, payload, mails, latest, serial,
                   clean>>

-----------------------------------------------------------------------------
(* A statement or a write to Kafka fails. Only a mail that cannot be sent   *)
(* does not end the handler. (Bound: one fault, crash or removal.)          *)
Fail(m) ==
    /\ MayFail /\ clean
    /\ pc[m] \in Busy
    /\ Go(m, IF pc[m] = "mail" THEN "build" ELSE "done")
    /\ clean' = FALSE
    /\ UNCHANGED <<data, report, prev, record, payload, serial>>

\* The process stops: every message that was read is lost.
Crash ==
    /\ MayFail /\ clean
    /\ \E m \in Messages : pc[m] \in Busy
    /\ pc' = [m \in Messages |-> IF pc[m] \in Busy THEN "lost" ELSE pc[m]]
    /\ clean' = FALSE
    /\ UNCHANGED <<data, report, prev, record, payload, serial>>

\* A cascade removes x (module CascadeDelete).
Remove(x) ==
    /\ MayFail /\ clean
    /\ x \in live
    /\ live' = live \ ({x} \cup {y \in Resources \ Sources : SourceOf[y] = x})
    /\ clean' = FALSE
    /\ UNCHANGED <<status, pc, report, prev, record, payload, sent, serial>>

Step(m) ==
    \/ ReadPrevious(m) \/ Update(m) \/ Reread(m) \/ ReadApplication(m)
    \/ Propagate(m) \/ Mail(m) \/ BuildUpdate(m) \/ BuildRecords(m) \/ Publish(m)

Next ==
    \/ \E m \in Messages : Step(m) \/ Fail(m) \/ \E r \in Reports : Receive(m, r)
    \/ Crash
    \/ \E x \in Resources : Remove(x)

Spec == Init /\ [][Next]_vars

\* A goroutine that was started runs.
FairSpec == Spec /\ \A m \in Messages : WF_vars(Step(m))

-----------------------------------------------------------------------------
Change == [from : Statuses, to : Statuses]

TypeOK ==
    /\ live \subseteq Resources
    /\ status \in [Resources -> Statuses]
    /\ pc \in [Messages -> Busy \cup Ended \cup {"idle"}]
    /\ report \in [Messages -> Reports \cup {Nil}]
    /\ prev \in [Messages -> Statuses \cup {Nil}]
    /\ record \in [Messages -> Statuses \cup {Nil}]
    /\ payload \in [Messages -> Event]
    /\ stream \in [Resources -> Seq(Event)]
    /\ mails \in [Resources -> Seq(Change)]
    /\ latest \in [Sources -> Statuses]
    /\ serial \in BOOLEAN
    /\ clean \in BOOLEAN

(* Whatever overtakes what, a status that a row comes to hold is announced: *)
(* some event of the resource carries it, or it is overwritten. (The        *)
(* payload is read back after the update, so the last writer announces      *)
(* what it wrote.) Sources are left out: propagation raises no event.       *)
StatusAnnounced ==
    \A x \in Apps \cup Endpoints, v \in Statuses \ {Initial} :
        (status[x] = v) ~>
            \/ status[x] # v \/ ~clean
            \/ \E i \in 1..Len(stream[x]) :
                  stream[x][i].kind = "update" /\ stream[x][i].status = v

\* A handler has changed x and not yet mailed it.
Changing(m, x) ==
    pc[m] \in {"reread", "application", "propagate", "mail"} /\ report[m].id = x

\* The status x has according to its mails.
Told(x) == IF mails[x] = <<>> THEN Initial ELSE mails[x][Len(mails[x])].to

\* Every change starts where the one before it ended.
Chain(c) ==
    \A i \in 1..Len(c) :
        /\ c[i].from = IF i = 1 THEN Initial ELSE c[i - 1].to
        /\ c[i].from # c[i].to

(* The mails of a resource form a chain from its first status to the one    *)
(* it has, with no gap and no repetition, as long as no two handlers        *)
(* overlap and nothing fails. (When they do overlap a mail can even say     *)
(* that a status changed to itself.)                                        *)
MailsChain ==
    serial /\ clean =>
        \A x \in Apps \cup Endpoints :
            /\ (\A m \in Messages : ~Changing(m, x)) => status[x] = Told(x)
            /\ Chain(mails[x])

(* Under the same condition a source has the status of what changed last,   *)
(* itself or one of its applications, unless it belongs to a user.          *)
SourceFollows ==
    serial /\ clean =>
        \A s \in Sources \ UserOwned :
            (\A m \in Messages, x \in Sources \cup Apps : Changing(m, x) => SourceFor(x) # s)
                => status[s] = latest[s]

\* A handler has what its next statement needs.
ReportOK(m) ==
    /\ report[m] # Nil /\ report[m].status \in Statuses
    /\ pc[m] # "previous" => prev[m] # Nil
    /\ pc[m] \in {"application", "propagate"} => report[m].id \in Apps
    /\ pc[m] \in {"application", "propagate", "mail"} => record[m] # Nil
    /\ pc[m] = "propagate" => payload[m].status # Nil

\* What a handler has read and written is still so when it is alone.
HandlerOK(m) ==
    LET x == report[m].id
        s == SourceFor(x)
    IN  /\ pc[m] # "previous" => Visible(x)
        /\ pc[m] = "update" => prev[m] = status[x]
        /\ Changing(m, x) =>
              /\ status[x] = report[m].status
              /\ x \in Apps \cup Endpoints => Told(x) = prev[m]
              /\ x \in Sources => latest[x] = prev[m]
        /\ pc[m] \in {"application", "propagate", "mail"} =>
              record[m] = report[m].status /\ record[m] # prev[m]
        /\ pc[m] = "propagate" => payload[m].status = record[m]
        /\ x \in Apps /\ s \notin UserOwned =>
              /\ pc[m] \in {"reread", "application", "propagate"} => status[s] = latest[s]
              /\ pc[m] = "mail" => status[s] = record[m]

(* What mails, sources and types keep to, in every order of the messages.   *)
ListenerInv ==
    /\ TypeOK
    /\ \A m \in Messages : pc[m] \in Busy => ReportOK(m)
    /\ clean => live = Resources
    /\ serial => \A m, n \in Messages : pc[m] \in Busy /\ pc[n] \in Busy => m = n
    /\ serial /\ clean => \A m \in Messages : pc[m] \in Busy => HandlerOK(m)
    /\ MailsChain /\ SourceFollows
=============================================================================
