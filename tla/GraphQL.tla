------------------------------- MODULE GraphQL -------------------------------
(***************************************************************************)
(* One GraphQL query. Its root fields and, below every row, its nested     *)
(* fields are resolved by goroutines of their own, which share the         *)
(* RequestData of the query: the lock on the source ids, which the handler *)
(* takes and the sources field gives back, the maps loaded once per query, *)
(* and the channel with the count. A resolver is                           *)
(* <<field, kind of parent, id of parent, path>>, the path being its root  *)
(* field and the ids on the way from there.                                *)
(*                                                                         *)
(* Of a query the module keeps                                             *)
(*   fields   its root fields, at most once each                           *)
(*   nested   <<root, field>>: the fields of the sources below that root   *)
(*   deep     whether applications and endpoints list authentications      *)
(*   tenant, user, filters, sort, limit, offset                            *)
(***************************************************************************)
EXTENDS Tables

CONSTANTS
    Queries,    \* the queries the clients may make
    GraphLimit  \* defaultLimit, the 500 rows loaded of anything nested

Loaded == {"applications", "endpoints", "authentications"}

ASSUME QueriesAssumption ==
    /\ GraphLimit \in Nat /\ Queries # {}
    /\ \A q \in Queries :
         /\ DOMAIN q = {"fields", "nested", "deep", "tenant", "user", "id", "filters",
                       "sort", "limit", "offset"}
         /\ q.fields \subseteq {"sources", "application_types", "meta"}
         /\ q.nested \subseteq {"sources", "application_types"} \X Loaded

VARIABLE gql

graphVars == <<db, gql>>

\* parseArgs: only these prefixes; any other makes no valid column.
ParsedArgs(f) ==
    IF f.sub \in {"", "source_type", "application"} THEN f
    ELSE [f EXCEPT !.sub = "", !.column = "other"]

ArgsSort(q) == IF q.sort = <<>> THEN <<"id">> ELSE q.sort

-----------------------------------------------------------------------------
Root(field) == <<field, "Query", 0, <<field>>>>

\* The handler: it holds the lock on the source ids.
GraphQLQuery(q) ==
    [q |-> q, status |-> "open", pc |-> [t \in {Root(f) : f \in q.fields} |-> "start"],
     out |-> [t \in {Root(f) : f \in q.fields} |-> {}], failed |-> {},
     locked |-> TRUE, ids |-> {}, owner |-> [k \in Loaded |-> <<>>],
     map |-> [k \in Loaded |-> {}], loads |-> [k \in Loaded |-> 0], chan |-> {}]

\* The resolvers that follow a row.
Nested(t, x) ==
    LET path == Append(t[4], x.id)
    IN  CASE x.table = "application_types" ->
               {<<"sources", "ApplicationType", x.id, path>>}
          [] x.table = "sources" ->
               {<<n[2], "Source", x.id, path>> : n \in {m \in gql.q.nested : m[1] = t[4][1]}}
          [] x.table = "applications" /\ gql.q.deep ->
               {<<"authentications", "Application", x.id, path>>}
          [] x.table = "endpoints" /\ gql.q.deep ->
               {<<"authentications", "Endpoint", x.id, path>>}
          [] OTHER -> {}

\* A resolver returns; what follows its rows starts.
Return(g, t, rows, failed) ==
    LET new == UNION {Nested(t, x) : x \in rows}
    IN  [g EXCEPT
           !.pc = [u \in DOMAIN @ \cup new |->
                     IF u = t THEN "done" ELSE IF u \in new THEN "start" ELSE @[u]],
           !.out = [u \in DOMAIN @ \cup new |->
                     IF u = t THEN rows ELSE IF u \in new THEN {} ELSE @[u]],
           !.failed = IF failed THEN @ \cup {t} ELSE @]

RootRows(field, q) ==
    IF field = "sources" THEN Visible("sources", q) ELSE Enabled(In("application_types"))

\* The sources and application_types fields: List, with the arguments.
List(t) ==
    LET q       == gql.q
        filters == {ParsedArgs(f) : f \in q.filters}
        refused == \/ \E f \in filters : BadFilter(t[1], f)
                   \/ \E i \in DOMAIN q.sort : BadSort(t[1], q.sort[i])
    IN  /\ gql.pc[t] = "start" /\ t[2] = "Query" /\ t[1] # "meta"
        /\ \E page \in IF refused THEN {{}}
                       ELSE Pages(Filtered(RootRows(t[1], q), filters), ArgsSort(q),
                                  q.limit, q.offset) :
             gql' = [gql EXCEPT !.pc[t] = "send", !.out[t] = page,
                                !.failed = IF refused THEN @ \cup {t} ELSE @]

\* Mutant: the lock is kept.
SendCountOnly(t) ==
    /\ gql.pc[t] = "send" /\ gql.chan = {}
    /\ gql' = Return([gql EXCEPT !.chan = {t[1]}, !.ids = {x.id : x \in gql.out[t]}],
                     t, gql.out[t], FALSE)

\* sendCount: the channel holds one count. Then sources gives its ids and
\* the lock away (SetSourceIDs).
SendCount(t) ==
    /\ gql.pc[t] = "send" /\ gql.chan = {}
    /\ LET sent == [gql EXCEPT !.chan = {t[1]}]
           set  == IF t[1] = "sources"
                     THEN [sent EXCEPT !.ids = {x.id : x \in gql.out[t]}, !.locked = FALSE]
                     ELSE sent
       IN  gql' = Return(set, t, gql.out[t], FALSE)

\* The meta field waits for a count, of whichever field.
Meta(t) ==
    /\ gql.pc[t] = "start" /\ t[1] = "meta" /\ gql.chan # {}
    /\ gql' = Return([gql EXCEPT !.chan = {}], t, {}, FALSE)

\* The sources of an application type.
TypeSources(t) ==
    /\ gql.pc[t] = "start" /\ t[1] = "sources" /\ t[2] = "ApplicationType"
    /\ LET q == [gql.q EXCEPT !.id = t[3]]
       IN  \E page \in Pages(SourcesThroughApplications(Visible("sources", q), q),
                             <<>>, GraphLimit, 0) :
             gql' = Return(gql, t, page, ~PrimaryExists("application_types", q))

-----------------------------------------------------------------------------
(* EnsureXAreLoaded.                                                        *)

\* The rows the fields of kind k are loaded from. Authentications are asked
\* for without the user.
LoadedRows(k) ==
    LET q    == gql.q
        rows == CASE k = "applications" -> Visible("applications", q)
                  [] k = "endpoints" -> OfTenant("endpoints", q)
                  [] k = "authentications" ->
                       Visible("authentications", [q EXCEPT !.user = Nobody])
    IN  {x \in rows : x.source \in gql.ids}

\* sourceApplicationsFromCtx, sourceEndpointsFromCtx, authenticationsFromCtx.
FromCtx(t, rows) ==
    IF t[1] = "authentications" THEN {x \in rows : x.of = <<t[2], t[3]>>}
    ELSE OfSource(rows, t[3])

\* Without a lock: the map may be there already.
Check(t) ==
    /\ gql.pc[t] = "start" /\ t[1] \in Loaded
    /\ gql' = IF gql.loads[t[1]] > 0
                THEN Return(gql, t, FromCtx(t, gql.map[t[1]]), FALSE)
                ELSE [gql EXCEPT !.pc[t] = "wait"]

\* ApplicationMutex and its like.
LockOwn(t) ==
    /\ gql.pc[t] = "wait" /\ gql.owner[t[1]] = <<>>
    /\ gql' = [gql EXCEPT !.pc[t] = "load", !.owner[t[1]] = t]

\* Mutant: whoever gets the lock loads.
LoadAgain(t) ==
    LET k == t[1]
    IN  /\ gql.pc[t] = "load" /\ ~gql.locked
        /\ LET unlocked == [gql EXCEPT !.owner[k] = <<>>]
           IN  \E page \in Pages(LoadedRows(k), <<>>, GraphLimit, 0) :
                 gql' = Return([unlocked EXCEPT !.map[k] = page, !.loads[k] = @ + 1],
                               t, FromCtx(t, page), gql.ids = {})

\* With the lock on the source ids too: load what nobody loaded. A filter
\* without values is refused.
LoadOnce(t) ==
    LET k == t[1]
    IN  /\ gql.pc[t] = "load" /\ ~gql.locked
        /\ LET unlocked == [gql EXCEPT !.owner[k] = <<>>]
           IN  CASE gql.loads[k] > 0 ->
                      gql' = Return(unlocked, t, FromCtx(t, gql.map[k]), FALSE)
                 [] gql.loads[k] = 0 /\ gql.ids = {} -> gql' = Return(unlocked, t, {}, TRUE)
                 [] OTHER -> \E page \in Pages(LoadedRows(k), <<>>, GraphLimit, 0) :
                      gql' = Return([unlocked EXCEPT !.map[k] = page, !.loads[k] = @ + 1],
                                    t, FromCtx(t, page), FALSE)

Resolve(t) ==
    /\ List(t) \/ SendCount(t) \/ Meta(t) \/ TypeSources(t) \/ Check(t) \/ LockOwn(t)
         \/ LoadOnce(t)
    /\ UNCHANGED db

\* All resolvers returned: the response.
Respond ==
    /\ gql.status = "open" /\ \A t \in DOMAIN gql.pc : gql.pc[t] = "done"
    /\ gql' = [gql EXCEPT !.status = "answered"] /\ UNCHANGED db

Resolving == (gql.status = "open" /\ \E t \in DOMAIN gql.pc : Resolve(t)) \/ Respond

InitGraph == InitTables /\ \E q \in Queries : gql = GraphQLQuery(q)

Meanwhile == gql.status = "open" /\ Changes /\ UNCHANGED gql

-----------------------------------------------------------------------------
\* What a resolver should give, of the rows there all the time.
Belongs(x, t) ==
    /\ x.table = t[1] /\ x.tenant = gql.q.tenant
    /\ FromCtx(t, {x}) # {}
    /\ x.user = Nobody \/ (x.user = gql.q.user /\ t[1] # "authentications")

\* Nested fields wait for the source ids and each kind is loaded once, however
\* many resolvers ask; nobody is shown another's rows; and nothing that was
\* there all the time is missing below the sources that were listed, unless
\* there was more than one load holds. (The user's own authentications are.)
GraphInv ==
    /\ \A k \in Loaded : gql.loads[k] <= 1 /\ (gql.locked => gql.loads[k] = 0)
    /\ \A t \in DOMAIN gql.out : \A x \in gql.out[t] :
         /\ x.table \in Tenanted => x.tenant = gql.q.tenant
         /\ x.user \in {Nobody, gql.q.user}
    /\ \A t \in DOMAIN gql.pc :
         (/\ gql.pc[t] = "done" /\ t[1] \in Loaded /\ t \notin gql.failed
          /\ t[2] = "Source" => t[3] \in gql.ids
          /\ Cardinality(gql.map[t[1]]) < GraphLimit)
         => \A x \in db \ Late : Belongs(x, t) /\ x.source \in gql.ids => x \in gql.out[t]

\* The queries no resolver of which waits for another that is not there: a
\* count comes of one listing field at least and, without meta, of one at
\* most; nested fields need the sources field.
Answerable(q) ==
    LET listings == q.fields \ {"meta"}
    IN  /\ "meta" \in q.fields => listings # {}
        /\ "meta" \notin q.fields => Cardinality(listings) <= 1
        /\ "sources" \notin q.fields => q.nested = {}

Unanswered == gql.status = "open" /\ Answerable(gql.q)
=============================================================================
