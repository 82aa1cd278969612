------------------------------ MODULE MCProcess ------------------------------
(* The rows of two tenants for the sessions and queries: shared and private *)
(* ones, of a disabled application type and of cost management, two that go *)
(* and one that comes meanwhile. The requests are every handler that lists  *)
(* or gets, and the filters, orders and pages that lead to a branch of it;  *)
(* the queries every root field, alone and together, with what nests.       *)
EXTENDS Process

Row(table, id, tenant, user, name, type, source, of) ==
    [table |-> table, id |-> id, tenant |-> tenant, user |-> user,
     name |-> name, type |-> type, source |-> source, of |-> of]
None == "none"
Source(id, tenant, user, name, type) == Row("sources", id, tenant, user, name, type, 0, <<>>)
Application(id, tenant, user, type, source) == Row("applications", id, tenant, user, 0, type, source, <<>>)
Authentication(id, tenant, user, source, of) == Row("authentications", id, tenant, user, id, 0, source, of)
Link(id, tenant, source, connection) == Row("source_rhc_connections", id, tenant, None, 0, 0, source, <<connection>>)
Association(id, tenant, user, of) == Row("application_authentications", id, tenant, user, 0, 0, 0, of)
Global(table, id, type, of) == Row(table, id, 0, None, id, type, 0, of)

MCLate == {Source(5, 1, None, 1, 2)}
MCRemovable == {Source(1, 1, None, 2, 1), Authentication(1, 1, None, 1, <<"Application", 1>>)}
MCRows == MCLate \cup MCRemovable \cup
  {Source(2, 1, "u1", 1, 2), Source(3, 2, None, 1, 1), Source(4, 1, "u2", 3, 1),
   Application(1, 1, None, 2, 1), Application(2, 1, "u1", 1, 2), Application(3, 2, None, 3, 3),
   Row("endpoints", 1, 1, None, 1, 0, 1, <<>>), Row("endpoints", 2, 2, None, 1, 0, 3, <<>>),
   Authentication(2, 1, "u1", 2, <<"Application", 2>>), Authentication(3, 1, None, 1, <<"Endpoint", 1>>),
   Authentication(4, 2, None, 3, <<"Source", 3>>), Authentication(5, 1, None, 0, <<"Tenant", 1>>),
   Association(1, 1, None, <<1, 1>>), Association(2, 1, "u1", <<2, 2>>),
   Link(1, 1, 1, 1), Link(2, 2, 3, 1), Link(3, 2, 3, 2),
   Global("rhc_connections", 1, 0, <<>>), Global("rhc_connections", 2, 0, <<>>),
   Global("source_types", 1, 0, <<>>), Global("source_types", 2, 0, <<>>),
   Global("application_types", 1, 0, <<>>), Global("application_types", 2, 0, <<>>), Global("application_types", 3, 0, <<>>),
   Global("meta_data", 1, 2, <<"AppMetaData">>), Global("meta_data", 2, 2, <<"SuperKeyMetaData">>)}

Ask(handler, id) ==
    [handler |-> handler, tenant |-> 1, user |-> "u1", id |-> id, filters |-> {},
     sort |-> <<>>, limit |-> 1, offset |-> 0, cert |-> FALSE, skip |-> FALSE]
Eq(sub, column, values) == [sub |-> sub, column |-> column, op |-> "eq", values |-> values]

Lists1 == {"SourceTypeListSource", "ApplicationTypeListSource", "SourcesRhcConnectionList", "RhcConnectionSourcesList",
   "SourceListAuthentications", "ApplicationListAuthentications", "EndpointListAuthentications",
   "SourceListApplications", "SourceListApplicationTypes", "SourceListEndpoint", "ApplicationTypeListMetaData"}
Plain == {"SourceList", "InternalSourceList", "ApplicationList", "ApplicationTypeList", "EndpointList", "AuthenticationList",
   "ApplicationAuthenticationList", "RhcConnectionList", "MetaDataList", "SourceTypeList", "SecretList"}
Gets == {"SourceGet", "ApplicationGet", "ApplicationTypeGet", "EndpointGet", "AuthenticationGet", "InternalAuthenticationGet",
   "ApplicationAuthenticationGet", "ApplicationAuthenticationListAuthentications", "RhcConnectionGetById", "MetaDataGet",
   "SourceTypeGet", "SecretGet", "InternalSecretGet"}
MCRequests ==
    {[Ask(h, 0) EXCEPT !.limit = IF h = "SourceList" THEN 1 ELSE 2] : h \in Plain} \cup {Ask(h, id) : h \in Gets \cup Lists1, id \in {1, 2}}
    \cup {[Ask("SecretGet", 5) EXCEPT !.user = None], Ask("ApplicationTypeGet", 3)}
    \cup {[Ask("SourceList", 0) EXCEPT !.filters = {f}, !.limit = 2] :
            f \in {Eq("", "type_id", {1, 2}), Eq("source_type", "name", {2}), Eq("application", "id", {1}),
                   Eq("application_type", "id", {1}), Eq("", "tenant_id", {1}), Eq("", "name", {}),
                   [sub |-> "", column |-> "id", op |-> "gt", values |-> {1}],
                   [sub |-> "", column |-> "name", op |-> "not_eq", values |-> {1}],
                   [sub |-> "", column |-> "name", op |-> "like", values |-> {1}]}}
    \cup {[Ask("SourceList", 0) EXCEPT !.cert = TRUE], [Ask("SourceList", 0) EXCEPT !.limit = 0],
          [Ask("SourceListAuthentications", 1) EXCEPT !.limit = 0],
          [Ask("SourceList", 0) EXCEPT !.offset = 1],
          [Ask("SourceList", 0) EXCEPT !.sort = <<"name", "id">>, !.limit = 2], [Ask("SourceList", 0) EXCEPT !.sort = <<"name">>],
          [Ask("SourceList", 0) EXCEPT !.sort = <<"tenant_id">>],
          [Ask("RhcConnectionSourcesList", 1) EXCEPT !.sort = <<"tenant_id">>],
          [Ask("ApplicationList", 0) EXCEPT !.filters = {Eq("application_type", "name", {1})}],
          [Ask("InternalSourceList", 0) EXCEPT !.skip = TRUE, !.sort = <<"name">>]}
Query(fields, nested) ==
  [fields |-> fields, nested |-> nested, deep |-> FALSE, tenant |-> 1, user |-> "u1", id |-> 0, filters |-> {},
   sort |-> <<>>, limit |-> 2, offset |-> 0]
Under(root, fs) == {<<root, f>> : f \in fs}
MCQueries ==
 { Query({"sources"}, Under("sources", {"applications", "endpoints"})),
   [Query({"sources"}, Under("sources", {"applications"})) EXCEPT !.deep = TRUE],
   [Query({"sources", "meta"}, Under("sources", {"endpoints"})) EXCEPT !.deep = TRUE, !.filters = {Eq("application", "type_id", {2})}],
   [Query({"sources"}, Under("sources", {"authentications"})) EXCEPT !.filters = {Eq("application_type", "id", {2})}],
   Query({"application_types"}, {}), Query({"application_types"}, Under("application_types", {"applications"})),
   Query({"meta"}, {}), Query({"sources", "application_types"}, {}),
   Query({"sources", "application_types", "meta"}, Under("application_types", {"applications"})),
   [Query({"sources", "application_types", "meta"}, Under("application_types", {"applications"})) EXCEPT !.filters = {Eq("", "tenant_id", {1})}] }

-----------------------------------------------------------------------------
\* One application at a time: they do not meet.
MCInit == InitProcess /\ Cardinality({a \in Apps : app[a].row = "new"}) <= 1
                     /\ (proc.mode \in {"applications", "worker"} => \E a \in Apps : app[a].row = "new")

Spec ==
    /\ MCInit /\ [][NextProcess]_processVars
    /\ WF_processVars(Main) /\ WF_processVars(Unit) /\ WF_processVars(AnswerQuery)
=============================================================================
