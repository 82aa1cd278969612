------------------------------- MODULE Tables -------------------------------
(***************************************************************************)
(* The tables the API lists, and the queries the data access objects       *)
(* build over them: the condition on tenant and user, relations, filters,  *)
(* sorting and pages. A row is a record with the columns of all tables:    *)
(*                                                                         *)
(*   table, id, tenant                                                     *)
(*   user    user_id, or Nobody                                            *)
(*   name    the name, or any other column that is not unique              *)
(*   type    source_type_id or application_type_id; for metadata its type  *)
(*   source  source_id                                                     *)
(*   of      <<resource type, id>> of an authentication, <<application,    *)
(*           authentication>> of an application_authentications row,       *)
(*           <<connection>> of a source_rhc_connections row, <<type>> of   *)
(*           metadata                                                      *)
(*                                                                         *)
(* Queries are READ COMMITTED: each sees the rows there are when it runs.  *)
(***************************************************************************)
EXTENDS Integers, Sequences, FiniteSets

CONSTANTS
    AllRows,   \* every row there may be
    Late,      \* those inserted while requests run
    Removable, \* those other requests may delete
    Nobody,    \* user_id IS NULL, and a requester without a user
    Disabled,  \* DISABLED_APPLICATION_TYPES, as ids
    CostType   \* the id of the cost management application type

Owned     == {"sources", "applications", "authentications", "application_authentications"}
Tenanted  == Owned \cup {"endpoints", "source_rhc_connections"}
Typed     == {"source_types", "application_types", "meta_data"}
AllTables == Tenanted \cup Typed \cup {"rhc_connections"}

Columns == {"id", "tenant_id", "user_id", "name", "type_id", "source_id"}

\* A link is of the tenant of its source: see LinksInv.
ASSUME RowsAssumption ==
    /\ IsFiniteSet(AllRows)
    /\ \A x \in AllRows :
         /\ x.table \in AllTables /\ x.id \in Nat
         /\ x.name \in Int /\ x.type \in Int /\ x.source \in Int
         /\ x.table \notin Owned => x.user = Nobody
    /\ \A x, y \in AllRows : x.table = y.table /\ x.id = y.id => x = y
    /\ \A l, s \in AllRows :
         l.table = "source_rhc_connections" /\ s.table = "sources" /\ l.source = s.id
           => l.tenant = s.tenant
    /\ Late \subseteq AllRows /\ Removable \subseteq AllRows

VARIABLE db  \* the rows there are

In(table) == {x \in db : x.table = table}

WithId(rows, id) == {x \in rows : x.id = id}

-----------------------------------------------------------------------------
(* Who sees what.                                                           *)

\* Mutant: the tenant alone decides.
VisibleToTenant(table, q) == {x \in In(table) : x.tenant = q.tenant}

\* getDbWithTable and useUserForDB.
Visible(table, q) ==
    {x \in In(table) : x.tenant = q.tenant /\ x.user \in {Nobody, q.user}}

\* Endpoints have no user.
OfTenant(table, q) == {x \in In(table) : x.tenant = q.tenant}

\* applyDisabledApplicationTypesRestriction.
Enabled(types) == {x \in types : x.id \notin Disabled}

-----------------------------------------------------------------------------
(* RelationObject.                                                          *)

\* checkIfPrimaryRecordExists: of a source only the tenant is compared.
PrimaryExists(table, q) ==
    IF table = "sources" THEN WithId(OfTenant("sources", q), q.id) # {}
                         ELSE WithId(In(table), q.id) # {}

\* HasManyRelation: the foreign key.
OfSource(rows, id) == {x \in rows : x.source = id}
OfType(rows, id)   == {x \in rows : x.type = id}

\* HasManyThrough applications: whoever of the tenant they belong to.
TypesThroughApplications(types, q) ==
    {x \in types : \E a \in OfTenant("applications", q) :
                      a.source = q.id /\ a.type = x.id}
SourcesThroughApplications(sources, q) ==
    {x \in sources : \E a \in OfTenant("applications", q) :
                        a.type = q.id /\ a.source = x.id}

-----------------------------------------------------------------------------
(* Filters: [sub, column, op, values].                                      *)

\* allowedFilterColumns.
Allowed(table, column) ==
    /\ column \in Columns \ {"tenant_id", "user_id"}
    /\ column = "name" => table # "source_rhc_connections"
    /\ column = "type_id" => table \in {"sources", "applications", "meta_data"}
    /\ column = "source_id" =>
         table \in {"applications", "authentications", "endpoints",
                    "source_rhc_connections"}

\* subresourceToTable, and the tables a subresource can be joined to.
TableOf(table, sub) ==
    CASE sub = "source_type" -> "source_types"
      [] sub = "application_type" -> "application_types"
      [] sub = "application" -> "applications"
      [] OTHER -> table

JoinedTo(sub) ==
    CASE sub = "application_type" -> "applications"
      [] OTHER -> "sources"

\* applyFilters returns an error.
BadFilter(table, f) ==
    \/ ~Allowed(TableOf(table, f.sub), f.column)
    \/ f.sub # "" /\ (table # JoinedTo(f.sub)
                      \/ f.sub \notin {"source_type", "application_type", "application"})
    \/ f.values = {}
    \/ f.op \notin {"eq", "not_eq", "gt"}

\* applySortBy does.
BadSort(table, column) == ~Allowed(table, column)

ValueOf(x, column) ==
    CASE column = "id" -> x.id
      [] column = "name" -> x.name
      [] column = "type_id" -> x.type
      [] column = "source_id" -> x.source

\* The rows a subresource joins to a row.
Joined(x, sub) ==
    CASE sub = "source_type" -> WithId(In("source_types"), x.type)
      [] sub = "application_type" -> WithId(In("application_types"), x.type)
      [] sub = "application" -> OfSource(In("applications"), x.id)
      [] OTHER -> {x}

\* The WHERE clause of a filter. Only eq uses more than one value.
Passes(x, f) ==
    \E y \in Joined(x, f.sub) :
      LET v == ValueOf(y, f.column)
      IN  CASE f.op = "eq" -> v \in f.values
            [] f.op = "not_eq" -> \E w \in f.values : v # w
            [] f.op = "gt" -> \E w \in f.values : v > w

Filtered(rows, filters) == {x \in rows : \A f \in filters : Passes(x, f)}

-----------------------------------------------------------------------------
(* ORDER BY, LIMIT and OFFSET: the pages the database may answer. sort is a *)
(* sequence of columns; rows it does not tell apart, or all of them without *)
(* one, come in any order.                                                  *)
NotAfter(x, y, sort) ==
    \A i \in 1 .. Len(sort) :
        (\A j \in 1 .. (i - 1) : ValueOf(x, sort[j]) = ValueOf(y, sort[j]))
            => ValueOf(x, sort[i]) <= ValueOf(y, sort[i])

Pages(rows, sort, limit, offset) ==
    LET n     == Cardinality(rows)
        skip  == IF offset < n THEN offset ELSE n
        size  == IF skip + limit < n THEN limit ELSE n - skip
        Upto(part) == \A x \in part, y \in rows \ part : NotAfter(x, y, sort)
    IN  {page \in SUBSET rows :
           /\ Cardinality(page) = size
           /\ \E before \in SUBSET (rows \ page) :
                /\ Cardinality(before) = skip
                /\ Upto(before) /\ Upto(before \cup page)}

-----------------------------------------------------------------------------
InitTables == db = AllRows \ Late

\* What goes with a row: see CascadeDelete and Links.
Hanging(x) ==
    CASE x.table = "sources" ->
           {y \in db : y.source = x.id /\ y.table \in Tenanted \ {"sources"}}
      [] x.table = "applications" ->
           {y \in In("authentications") : y.of = <<"Application", x.id>>}
             \cup {y \in In("application_authentications") : y.of[1] = x.id}
      [] x.table = "authentications" ->
           {y \in In("application_authentications") : y.of[2] = x.id}
      [] OTHER -> {}

\* Another request inserts or deletes.
Insert(x) == x \in Late \ db /\ db' = db \cup {x}
Remove(x) == x \in Removable \cap db /\ db' = db \ (Hanging(x) \cup {x})

Changes == \E x \in AllRows : Insert(x) \/ Remove(x)
=============================================================================
