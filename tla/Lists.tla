-------------------------------- MODULE Lists --------------------------------
(***************************************************************************)
(* The handlers that list and get, and the data access objects under them. *)
(* A session is one client that asks for a list and, as long as it gets a  *)
(* full page, for the page links.last names, while other requests insert   *)
(* and delete rows. Of a request the modules keeps                         *)
(*   handler, tenant, user, id (of the path), filters, sort, limit, offset *)
(*   cert   certificate authentication                                     *)
(*   skip   the x-rh-sources-skip-empty-sources header                     *)
(***************************************************************************)
EXTENDS Tables

CONSTANTS
    Requests,     \* the requests the clients may make
    Satellite,    \* the id of the satellite source type
    FixedLimit    \* the 100 of the lists that are not paged

Handlers ==
    {"SourceList", "SourceGet", "SourceListAuthentications", "SourceTypeListSource",
     "ApplicationTypeListSource", "SourcesRhcConnectionList", "InternalSourceList",
     "InternalAuthenticationGet", "ApplicationList", "ApplicationGet",
     "ApplicationListAuthentications", "SourceListApplications",
     "SourceListApplicationTypes", "ApplicationTypeList", "ApplicationTypeGet",
     "SourceListEndpoint", "EndpointList", "EndpointGet", "EndpointListAuthentications",
     "AuthenticationList", "AuthenticationGet", "ApplicationAuthenticationList",
     "ApplicationAuthenticationGet", "ApplicationAuthenticationListAuthentications",
     "RhcConnectionList", "RhcConnectionGetById", "RhcConnectionSourcesList",
     "MetaDataList", "ApplicationTypeListMetaData", "MetaDataGet", "SourceTypeList",
     "SourceTypeGet", "SecretList", "SecretGet", "InternalSecretGet"}

ASSUME RequestsAssumption ==
    /\ FixedLimit \in Nat /\ Requests # {}
    /\ \A q \in Requests :
         /\ DOMAIN q = {"handler", "tenant", "user", "id", "filters", "sort", "limit",
                       "offset", "cert", "skip"}
         /\ q.handler \in Handlers /\ q.limit \in Int /\ q.offset \in Int
         /\ q.sort \in Seq(STRING)

VARIABLE session

listVars == <<db, session>>

-----------------------------------------------------------------------------
(* What a data access object answers: whether it found the primary record,  *)
(* and the rows before filters, sorting and pages.                          *)

Within(found, table, rows) == [found |-> found, table |-> table, rows |-> rows]

All(table, rows) == Within(TRUE, table, rows)

One(table, rows, q) ==
    LET row == WithId(rows, q.id)
    IN  Within(row # {}, table, row)

\* The primary record, with the tenant only.
Exists(table, q) == WithId(OfTenant(table, q), q.id) # {}

SourcesListed(q) == All("sources", Visible("sources", q))

SourcesOfSourceType(q) ==
    Within(PrimaryExists("source_types", q), "sources",
           OfType(Visible("sources", q), q.id))

SourcesOfApplicationType(q) ==
    Within(PrimaryExists("application_types", q), "sources",
           SourcesThroughApplications(Visible("sources", q), q))

\* ListInternal: whoever they belong to; skipEmptySources leaves out the
\* sources with neither a connection nor an application worth a check.
InternalSources(q) ==
    LET Linked(s)  == OfSource(In("source_rhc_connections"), s.id) # {}
        Checked(s) == \E a \in OfSource(In("applications"), s.id) : a.type # CostType
    IN  All("sources", {s \in In("sources") : q.skip => Linked(s) \/ Checked(s)})

SourceById(q) == One("sources", Visible("sources", q), q)

\* ListForRhcConnection: the link's tenant, and the user of the source.
SourcesOfConnection(q) ==
    {s \in In("sources") :
       /\ s.user \in {Nobody, q.user}
       /\ \E c \in OfTenant("source_rhc_connections", q) :
             c.of = <<q.id>> /\ c.source = s.id}

ApplicationsListed(q) == All("applications", Visible("applications", q))

ApplicationsOfSource(q) ==
    Within(PrimaryExists("sources", q), "applications",
           OfSource(Visible("applications", q), q.id))

ApplicationById(q) == One("applications", Visible("applications", q), q)

ApplicationTypesListed(q) == All("application_types", Enabled(In("application_types")))

ApplicationTypesOfSource(q) ==
    Within(PrimaryExists("sources", q), "application_types",
           Enabled(TypesThroughApplications(In("application_types"), q)))

ApplicationTypeById(q) == One("application_types", Enabled(In("application_types")), q)

EndpointsListed(q) == All("endpoints", OfTenant("endpoints", q))

EndpointsOfSource(q) ==
    Within(PrimaryExists("sources", q), "endpoints",
           OfSource(OfTenant("endpoints", q), q.id))

EndpointById(q) == One("endpoints", OfTenant("endpoints", q), q)

AuthenticationsListed(q) == All("authentications", Visible("authentications", q))

AuthenticationById(q) == One("authentications", Visible("authentications", q), q)

AuthenticationsOfSource(q) ==
    Within(Exists("sources", q), "authentications",
           OfSource(Visible("authentications", q), q.id))

AuthenticationsOf(resource, table, q) ==
    Within(Exists(table, q), "authentications",
           {x \in Visible("authentications", q) : x.of = <<resource, q.id>>})

AuthenticationsOfApplication(q) == AuthenticationsOf("Application", "applications", q)

AuthenticationsOfEndpoint(q) == AuthenticationsOf("Endpoint", "endpoints", q)

\* Two queries: the association, and the authentication it names.
AuthenticationOfAssociation(q) ==
    LET named == {x \in Visible("authentications", q) :
                    \E l \in WithId(Visible("application_authentications", q), q.id) :
                       x.id = l.of[2]}
    IN  Within(named # {}, "authentications", named)

AssociationsListed(q) ==
    All("application_authentications", Visible("application_authentications", q))

AssociationById(q) ==
    One("application_authentications", Visible("application_authentications", q), q)

\* Connections have no tenant: those linked to a source of the tenant.
Connected(q) ==
    {c \in In("rhc_connections") :
       \E l \in OfTenant("source_rhc_connections", q) : l.of = <<c.id>>}

ConnectionsListed(q) == All("rhc_connections", Connected(q))

ConnectionById(q) == One("rhc_connections", Connected(q), q)

ConnectionsOfSource(q) ==
    {c \in In("rhc_connections") :
       \E l \in OfSource(OfTenant("source_rhc_connections", q), q.id) : l.of = <<c.id>>}

MetaDataListed(q) == All("meta_data", {x \in In("meta_data") : x.of = <<"AppMetaData">>})

MetaDataOfType(q) ==
    Within(PrimaryExists("application_types", q), "meta_data",
           OfType({x \in In("meta_data") : x.of = <<"AppMetaData">>}, q.id))

MetaDataById(q) == One("meta_data", In("meta_data"), q)

SourceTypesListed(q) == All("source_types", In("source_types"))

SourceTypeById(q) == One("source_types", In("source_types"), q)

SecretsOf(q) == {x \in Visible("authentications", q) : x.of[1] = "Tenant"}

SecretsListed(q) == All("authentications", SecretsOf(q))

SecretById(q) == One("authentications", SecretsOf(q), q)

-----------------------------------------------------------------------------
(* The handlers.                                                            *)

Handled(answer, filters, paging) ==
    [found |-> answer.found, table |-> answer.table, rows |-> answer.rows,
     more |-> filters, paging |-> paging]

\* With the filters, the order and the page the client asked for.
Paged(answer) == Handled(answer, {}, "asked")

\* One page of FixedLimit rows, without filters and without ORDER BY.
Fixed(answer) == Handled(answer, {}, "fixed")

\* A single record or none: no query counts.
Single(answer) == Handled(answer, {}, "single")

Satellites == [sub |-> "", column |-> "type_id", op |-> "eq", values |-> {Satellite}]

SourceList(q) ==
    Handled(SourcesListed(q), IF q.cert THEN {Satellites} ELSE {}, "asked")

SourceGet(q) == Single(SourceById(q))

SourceListAuthentications(q) == Fixed(AuthenticationsOfSource(q))

SourceTypeListSource(q) == Paged(SourcesOfSourceType(q))

ApplicationTypeListSource(q) == Paged(SourcesOfApplicationType(q))

SourcesRhcConnectionList(q) ==
    Paged(Within(SourceById(q).found, "rhc_connections", ConnectionsOfSource(q)))

InternalSourceList(q) == Handled(InternalSources(q), {}, "ordered")

InternalAuthenticationGet(q) == Single(AuthenticationById(q))

ApplicationList(q) == Paged(ApplicationsListed(q))

ApplicationGet(q) == Single(ApplicationById(q))

ApplicationListAuthentications(q) == Fixed(AuthenticationsOfApplication(q))

SourceListApplications(q) == Paged(ApplicationsOfSource(q))

SourceListApplicationTypes(q) == Paged(ApplicationTypesOfSource(q))

ApplicationTypeList(q) == Paged(ApplicationTypesListed(q))

ApplicationTypeGet(q) == Single(ApplicationTypeById(q))

SourceListEndpoint(q) == Paged(EndpointsOfSource(q))

EndpointList(q) == Paged(EndpointsListed(q))

EndpointGet(q) == Single(EndpointById(q))

EndpointListAuthentications(q) == Paged(AuthenticationsOfEndpoint(q))

AuthenticationList(q) == Paged(AuthenticationsListed(q))

AuthenticationGet(q) == Single(AuthenticationById(q))

ApplicationAuthenticationList(q) == Paged(AssociationsListed(q))

ApplicationAuthenticationGet(q) == Single(AssociationById(q))

ApplicationAuthenticationListAuthentications(q) == 
    Single(AuthenticationOfAssociation(q))

RhcConnectionList(q) == Paged(ConnectionsListed(q))

RhcConnectionGetById(q) == Single(ConnectionById(q))

RhcConnectionSourcesList(q) ==
    Paged(Within(ConnectionById(q).found, "sources", SourcesOfConnection(q)))

MetaDataList(q) == Paged(MetaDataListed(q))

ApplicationTypeListMetaData(q) == Paged(MetaDataOfType(q))

MetaDataGet(q) == Single(MetaDataById(q))

SourceTypeList(q) == Paged(SourceTypesListed(q))

SourceTypeGet(q) == Single(SourceTypeById(q))

SecretList(q) == Paged(SecretsListed(q))

SecretGet(q) == Single(SecretById(q))

InternalSecretGet(q) == Single(SecretById(q))

-----------------------------------------------------------------------------
Listing(q) ==
    CASE q.handler = "SourceList" -> SourceList(q)
      [] q.handler = "SourceGet" -> SourceGet(q)
      [] q.handler = "SourceListAuthentications" -> SourceListAuthentications(q)
      [] q.handler = "SourceTypeListSource" -> SourceTypeListSource(q)
      [] q.handler = "ApplicationTypeListSource" -> ApplicationTypeListSource(q)
      [] q.handler = "SourcesRhcConnectionList" -> SourcesRhcConnectionList(q)
      [] q.handler = "InternalSourceList" -> InternalSourceList(q)
      [] q.handler = "InternalAuthenticationGet" -> InternalAuthenticationGet(q)
      [] q.handler = "ApplicationList" -> ApplicationList(q)
      [] q.handler = "ApplicationGet" -> ApplicationGet(q)
      [] q.handler = "ApplicationListAuthentications" -> ApplicationListAuthentications(q)
      [] q.handler = "SourceListApplications" -> SourceListApplications(q)
      [] q.handler = "SourceListApplicationTypes" -> SourceListApplicationTypes(q)
      [] q.handler = "ApplicationTypeList" -> ApplicationTypeList(q)
      [] q.handler = "ApplicationTypeGet" -> ApplicationTypeGet(q)
      [] q.handler = "SourceListEndpoint" -> SourceListEndpoint(q)
      [] q.handler = "EndpointList" -> EndpointList(q)
      [] q.handler = "EndpointGet" -> EndpointGet(q)
      [] q.handler = "EndpointListAuthentications" -> EndpointListAuthentications(q)
      [] q.handler = "AuthenticationList" -> AuthenticationList(q)
      [] q.handler = "AuthenticationGet" -> AuthenticationGet(q)
      [] q.handler = "ApplicationAuthenticationList" -> ApplicationAuthenticationList(q)
      [] q.handler = "ApplicationAuthenticationGet" -> ApplicationAuthenticationGet(q)
      [] q.handler = "ApplicationAuthenticationListAuthentications" -> ApplicationAuthenticationListAuthentications(q)
      [] q.handler = "RhcConnectionList" -> RhcConnectionList(q)
      [] q.handler = "RhcConnectionGetById" -> RhcConnectionGetById(q)
      [] q.handler = "RhcConnectionSourcesList" -> RhcConnectionSourcesList(q)
      [] q.handler = "MetaDataList" -> MetaDataList(q)
      [] q.handler = "ApplicationTypeListMetaData" -> ApplicationTypeListMetaData(q)
      [] q.handler = "MetaDataGet" -> MetaDataGet(q)
      [] q.handler = "SourceTypeList" -> SourceTypeList(q)
      [] q.handler = "SourceTypeGet" -> SourceTypeGet(q)
      [] q.handler = "SecretList" -> SecretList(q)
      [] q.handler = "SecretGet" -> SecretGet(q)
      [] q.handler = "InternalSecretGet" -> InternalSecretGet(q)

-----------------------------------------------------------------------------
(* SortAndFilter and Pagination, and their use in the handlers.             *)

\* parseFilter: only these subresources; any other word is a column.
Parsed(f) ==
    IF f.sub \in {"", "source_type", "application_type"} THEN f
    ELSE [f EXCEPT !.sub = "", !.column = f.sub]

\* Mutant: no order by default.
Unsorted(q) == q.sort

\* parseSorting: by id unless the client says otherwise.
Sorting(q) == IF q.sort = <<>> THEN <<"id">> ELSE q.sort

SortAndFilter(q) == [filters |-> {Parsed(f) : f \in q.filters}, sort |-> Sorting(q)]

\* getLimitAndOffset; the lists of one fixed page never call it.
BadPage(q) == q.limit < 1 \/ q.offset < 0

\* What applyFilters gets: nothing in the lists of one fixed page.
Conditions(q) ==
    LET l == Listing(q)
    IN  IF l.paging = "fixed" THEN [filters |-> {}, sort |-> <<>>]
        ELSE [SortAndFilter(q) EXCEPT
                !.filters = @ \cup l.more,
                !.sort = IF l.paging = "ordered" THEN @ \o <<"id">> ELSE @]

Refused(q) ==
    \/ \E f \in Conditions(q).filters : BadFilter(Listing(q).table, f)
    \/ \E i \in DOMAIN Conditions(q).sort : BadSort(Listing(q).table, Conditions(q).sort[i])

\* ListForRhcConnection does not wrap the error of applyFilters.
RefusedStatus(q) == IF q.handler = "RhcConnectionSourcesList" THEN "500" ELSE "400"

Matching(q) == IF Refused(q) THEN {} ELSE Filtered(Listing(q).rows, Conditions(q).filters)

-----------------------------------------------------------------------------
(* A session. seen, twice: the rows delivered, and those delivered again.   *)
(* always: the rows that matched all the time; left, came: how many stopped *)
(* matching, and began to. shrunk: one stopped since the count.             *)
Session(q) ==
    [q |-> q, step |-> "parse", from |-> q.offset, status |-> "", count |-> 0, page |-> {},
     seen |-> {}, twice |-> {}, always |-> Matching(q), left |-> 0, came |-> 0,
     shrunk |-> FALSE]

InitLists == InitTables /\ \E q \in Requests : session = Session(q)

End(status) == session' = [session EXCEPT !.step = "done", !.status = status]

Parse ==
    /\ session.step = "parse"
    /\ IF Listing(session.q).paging \in {"asked", "ordered"} /\ BadPage(session.q)
         THEN End("400")
         ELSE session' = [session EXCEPT !.step = "primary"]
    /\ UNCHANGED db

\* The primary record, then applyFilters. First returns the single record.
FindPrimary ==
    LET q == session.q
        l == Listing(q)
    IN  /\ session.step = "primary"
        /\ CASE ~l.found -> End("404")
             [] l.found /\ l.paging = "single" ->
                  session' = [session EXCEPT !.step = "done", !.status = "200",
                                             !.page = l.rows, !.seen = l.rows]
             [] l.found /\ l.paging # "single" /\ Refused(q) -> End(RefusedStatus(q))
             [] OTHER -> session' = [session EXCEPT !.step = "count"]
        /\ UNCHANGED db

Count ==
    /\ session.step = "count"
    /\ session' = [session EXCEPT !.step = "select", !.shrunk = FALSE,
                                  !.count = Cardinality(Matching(session.q))]
    /\ UNCHANGED db

Deliver(rows) ==
    session' = [session EXCEPT !.step = "answered", !.status = "200", !.page = rows,
                               !.twice = @ \cup (session.seen \cap rows),
                               !.seen = @ \cup rows]

\* Limit, Offset, Find, and the response.
Select ==
    LET q == session.q
    IN  /\ session.step = "select"
        /\ Listing(q).paging \in {"asked", "ordered"}
        /\ \E page \in Pages(Matching(q), Conditions(q).sort, q.limit, q.offset) : Deliver(page)
        /\ UNCHANGED db

\* The response has room for as many rows as were counted, and is filled by
\* index: with fewer rows the handler panics, and Recover answers 500.
SelectFixed ==
    /\ session.step = "select" /\ Listing(session.q).paging = "fixed"
    /\ \E page \in Pages(Matching(session.q), <<>>, FixedLimit, 0) :
         IF Cardinality(page) < session.count THEN End("500")
         ELSE \E rows \in SUBSET page :
                Cardinality(rows) = session.count /\ Deliver(rows)
    /\ UNCHANGED db

\* CollectionResponse names the next page in links.last; the client follows
\* it after a full page.
NextPage ==
    /\ session.step = "answered"
    /\ Listing(session.q).paging # "fixed" /\ Cardinality(session.page) = session.q.limit
    /\ session' = [session EXCEPT !.step = "parse", !.q.offset = @ + session.q.limit]
    /\ UNCHANGED db

LastPage ==
    /\ session.step = "answered"
    /\ Listing(session.q).paging = "fixed" \/ Cardinality(session.page) < session.q.limit
    /\ End(session.status) /\ UNCHANGED db

Elsewhere ==
    /\ session.step # "done"
    /\ Changes
    /\ \E q \in {session.q}, before \in {Matching(session.q)} :
         LET after == Matching(q)'
         IN  session' = [session EXCEPT !.always = @ \cap after,
                                        !.left = @ + Cardinality(before \ after),
                                        !.came = @ + Cardinality(after \ before),
                                        !.shrunk = @ \/ before \ after # {}]

Answering == Parse \/ FindPrimary \/ Count \/ Select \/ SelectFixed \/ NextPage \/ LastPage

NextLists == Answering \/ Elsewhere

-----------------------------------------------------------------------------
Internal == {"InternalSourceList"}

\* What the requester may be shown: the rows of the tenant, of all users or
\* the requester, connections some source of the tenant has or had, and no
\* disabled application type.
Theirs(x, q) ==
    /\ x.table \in Tenanted => x.tenant = q.tenant
    /\ x.user \in {Nobody, q.user}
    /\ x.table = "application_types" => x.id \notin Disabled
    /\ x.table = "rhc_connections" =>
         \E l \in AllRows : /\ l.table = "source_rhc_connections"
                            /\ l.tenant = q.tenant /\ l.of = <<x.id>>

\* Every list shows only what its requester may see; a short page is the end
\* of what was counted, unless a row went between the two queries; and the
\* handlers that fill the response by index panic only then, or when there
\* are more rows than their one page holds.
ListsInv ==
    LET q == session.q
    IN  /\ session.step \in {"parse", "primary", "count", "select", "answered", "done"}
        /\ session.status \in {"", "200", "400", "404", "500"}
        /\ q.handler \notin Internal => \A x \in session.seen : Theirs(x, q)
        /\ q.cert /\ q.handler = "SourceList" => \A x \in session.seen : x.type = Satellite
        /\ session.status = "500" /\ Listing(q).paging = "fixed"
             => session.shrunk \/ session.count > FixedLimit
        /\ session.step = "answered" /\ ~session.shrunk
             /\ Listing(q).paging # "fixed" /\ Cardinality(session.page) < q.limit
           => q.offset + Cardinality(session.page) >= session.count

\* A client that follows links.last to the end has seen every row that was
\* there all the time, except for at most as many as went meanwhile (a row
\* that goes again counts again), and no row twice, except for at most as many
\* as came. This needs the order: by default, and in the list of the sources
\* monitor, the id.
PagesComplete ==
    LET q == session.q
    IN  session.step = "done" /\ session.status = "200" /\ session.from = 0
          /\ Listing(q).paging \in {"asked", "ordered"}
          /\ \/ q.sort = <<>> \/ "id" \in {q.sort[i] : i \in DOMAIN q.sort}
             \/ q.handler \in Internal
        => /\ Cardinality(session.always \ session.seen) <= session.left
           /\ Cardinality(session.twice) <= session.came
=============================================================================
