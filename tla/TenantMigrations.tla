-------------------------- MODULE TenantMigrations --------------------------
(***************************************************************************)
(* The tenants table and the migrations that prepare it for its unique     *)
(* indexes: empty identifiers become NULL, the tenants that share an EBS   *)
(* account number or an org id are merged into one of them, the indexes    *)
(* are created, and the emptied tenants are removed. Until then parallel   *)
(* requests could insert the same tenant twice.                            *)
(*                                                                         *)
(* The rows of the seven tables that have a tenant_id are represented by   *)
(* those of the users table.                                               *)
(***************************************************************************)
EXTENDS Integers, SequencesExt

CONSTANTS
    Accounts, Orgs,  \* EBS account numbers and org ids
    Users,           \* users.user_id, unique
    MaxTenants,      \* the largest tenants.id (a bound)
    Nil,             \* NULL
    Empty,           \* the empty string
    InitialTables    \* the tables the migrations may find

Ids == 1..MaxTenants

Columns == {"account", "org"}

(* "processed-duplicate-tenant-of-<value>-<n>"                              *)
Mark(value, n) == <<value, n>>

Values  == Accounts \cup Orgs
Marks   == {Mark(v, n) : v \in Values, n \in Ids}
Tenants == [account : Accounts \cup {Nil, Empty} \cup Marks,
            org     : Orgs \cup {Nil, Empty} \cup Marks]

(* The migrations have not run yet: no identifier is a mark.               *)
ASSUME TenantAssumption ==
    /\ Accounts \cap Orgs = {}
    /\ {Nil, Empty} \cap Values = {} /\ Nil \notin Ids
    /\ Marks \cap (Values \cup {Nil, Empty}) = {}
    /\ MaxTenants \in Nat
    /\ \A table \in InitialTables :
          /\ DOMAIN table.tenants \subseteq Ids
          /\ \A t \in DOMAIN table.tenants :
                table.tenants[t] \in [account : Accounts \cup {Nil, Empty},
                                     org     : Orgs \cup {Nil, Empty}]
          /\ \A u \in DOMAIN table.users :
                u \in Users /\ table.users[u] \in DOMAIN table.tenants

VARIABLES
    tenants,  \* the rows of tenants, by id
    users,    \* users.tenant_id, by user_id
    step,     \* the migration that is next, "serve" when they are done
    groups,   \* the duplicates still to merge
    before    \* the tables as the migrations found them (history, forgotten
              \* when they are done)

tables == <<tenants, users, before>>
migrationVars == <<tenants, users, step, groups, before>>

InitMigrations ==
    /\ before \in InitialTables
    /\ tenants = before.tenants
    /\ users = before.users
    /\ step = "nullify"
    /\ groups = {}

\* The rows a comparison with a value finds: none when it is NULL or empty.
Holding(column, value) ==
    {t \in DOMAIN tenants : value \in Values /\ tenants[t][column] = value}

-----------------------------------------------------------------------------
NoEmpty(value) == IF value = Empty THEN Nil ELSE value

\* MakeEmptyExternalTenantsOrgIdsNull.
MakeEmptyNull ==
    /\ step = "nullify"
    /\ tenants' = [t \in DOMAIN tenants |-> [account |-> NoEmpty(tenants[t].account),
                                            org     |-> NoEmpty(tenants[t].org)]]
    /\ step' = "find"
    /\ UNCHANGED <<users, groups, before>>

(* The rows that share a value, in the order the database returns them,    *)
(* grouped by each of their own values: the other value of a duplicate     *)
(* makes a group too, often of one.                                        *)
Duplicated == {t \in DOMAIN tenants :
                 \E c \in Columns : Holding(c, tenants[t][c]) \ {t} # {}}

Group(c, v, order) ==
    [column |-> c, value |-> v, place |-> Restrict(order, Duplicated \cap Holding(c, v))]

GroupsBy(order) ==
    {g \in {Group(c, v, order) : c \in Columns, v \in Values} : DOMAIN g.place # {}}

FindDuplicates ==
    /\ step = "find"
    /\ \E order \in Injection(Duplicated, 1..Cardinality(Duplicated)) :
         groups' = GroupsBy(order)
    /\ step' = "merge"
    /\ UNCHANGED tables

\* mainTenantId: the row of a group that came first.
MainTenant(g) ==
    CHOOSE t \in DOMAIN g.place : g.place[t] = Min({g.place[o] : o \in DOMAIN g.place})

(* One group, in the order a Go map is ranged over, the account numbers     *)
(* first: what belongs to the other tenants goes to the main one, and they  *)
(* are marked (counted here by their place among all the duplicates, not in *)
(* their group). Nothing skips the ids an earlier group has processed.      *)
Merge(g, others) ==
    /\ step = "merge"
    /\ g \in groups
    /\ g.column = "org" => \A h \in groups : h.column = "org"
    /\ users' = [u \in DOMAIN users |->
                   IF users[u] \in others THEN MainTenant(g) ELSE users[u]]
    /\ tenants' = [t \in DOMAIN tenants |->
                     IF t \in others
                       THEN [tenants[t] EXCEPT ![g.column] = Mark(g.value, g.place[t])]
                       ELSE tenants[t]]
    /\ groups' = groups \ {g}
    /\ UNCHANGED <<step, before>>

\* Faulty variant: a tenant is a duplicate only of its neighbour.
MergeNextOnly(g) ==
    Merge(g, {t \in DOMAIN g.place : g.place[t] = g.place[MainTenant(g)] + 1})

MergeGroup(g) == Merge(g, DOMAIN g.place \ {MainTenant(g)})

(* AddTenantsExternalTenantOrgIdUniqueIndex: an empty string is a value to *)
(* an index, a NULL is not. A failed migration stops the program.          *)
CreateIndexes ==
    /\ step = "merge"
    /\ groups = {}
    /\ step' = IF \A c \in Columns : \A t, o \in DOMAIN tenants :
                     tenants[t][c] = tenants[o][c] /\ tenants[t][c] # Nil => t = o
                 THEN "remove" ELSE "failed"
    /\ UNCHANGED <<tables, groups>>

Marked(t) == \E c \in Columns : tenants[t][c] \in Marks

\* RemoveProcessedDuplicatedTenants: the marked tenants that nothing belongs to.
RemoveMarked ==
    /\ step = "remove"
    /\ tenants' = [t \in {o \in DOMAIN tenants :
                            Marked(o) => \E u \in DOMAIN users : users[u] = o} |->
                     tenants[t]]
    /\ step' = "serve"
    /\ before' = [tenants |-> <<>>, users |-> <<>>]
    /\ UNCHANGED <<users, groups>>

Migrate ==
    \/ MakeEmptyNull
    \/ FindDuplicates
    \/ \E g \in groups : MergeGroup(g)
    \/ CreateIndexes
    \/ RemoveMarked

-----------------------------------------------------------------------------
(* The indexes that keep parallel requests from inserting a tenant twice   *)
(* can always be created: the migrations before them leave no identifier   *)
(* on two tenants, whatever the duplicates and the order they come in.     *)
IndexesCreated == step # "failed"

(* "unifies all the subresources in a single tenant"                        *)
(* (20220608090500_remove_duplicated_tenant_ids_org_ids.go:17): what belonged *)
(* to tenants with the same account number belongs to one tenant in the end, *)
(* also when a merge by org id has moved it again.                          *)
MergedTogether ==
    step \in {"merge", "remove"} /\ groups = {} =>
        \A u, v \in DOMAIN before.users :
            LET account(w) == before.tenants[before.users[w]].account
            IN  account(u) = account(v) /\ account(u) \in Accounts => users[u] = users[v]

(* The inductive invariant of the migrations. The values the merge starts   *)
(* with, and the groups of them that are still to merge.                    *)
Original(t, c) == NoEmpty(before.tenants[t][c])

ToMerge(c, v) == \E g \in groups : g.column = c /\ g.value = v

Unmerged == step \in {"nullify", "find"}

(* There is one group of a value, with every row that has it.               *)
GroupsOK ==
    \A g \in groups :
        /\ g.column \in Columns /\ g.value \in Values
        /\ DOMAIN g.place # {}
        /\ \A t \in DOMAIN before.tenants :
              Original(t, g.column) = g.value <=> t \in DOMAIN g.place
        /\ DOMAIN g.place \subseteq DOMAIN before.tenants
        /\ \A t \in DOMAIN g.place : g.place[t] \in Ids
        /\ \A t, o \in DOMAIN g.place : g.place[t] = g.place[o] => t = o
        /\ \A h \in groups : g.column = h.column /\ g.value = h.value => g = h

(* A value is the original one or, when its group is merged, a mark of it;  *)
(* rows that had the same one differ as soon as it is.                      *)
RowsOK ==
    /\ DOMAIN tenants = DOMAIN before.tenants
    /\ \A t \in DOMAIN tenants : \A c \in Columns :
          /\ \/ tenants[t][c] = Original(t, c)
             \/ /\ Original(t, c) \in Values /\ ~ToMerge(c, Original(t, c))
                /\ \E n \in Ids : tenants[t][c] = Mark(Original(t, c), n)
          /\ \A o \in DOMAIN tenants \ {t} :
                Original(t, c) = Original(o, c) /\ Original(t, c) \in Values =>
                  ToMerge(c, Original(t, c)) \/ tenants[t][c] # tenants[o][c]

(* What belongs to a tenant stays with it until the account number it had   *)
(* is merged, and stays together from then on.                              *)
AccountOf(u) == Original(before.users[u], "account")

Waits(u) == ToMerge("account", AccountOf(u))

OwnersOK ==
    /\ DOMAIN users = DOMAIN before.users
    /\ \A u \in DOMAIN users : Waits(u) => users[u] = before.users[u]
    /\ \A u, v \in DOMAIN users :
          AccountOf(u) \in Accounts /\ AccountOf(u) = AccountOf(v) =>
            Waits(u) \/ users[u] = users[v]

UniqueIdentifiers ==
    \A c \in Columns : \A t, o \in DOMAIN tenants :
        tenants[t][c] = tenants[o][c] /\ tenants[t][c] # Nil => t = o

MigrationsOK ==
    /\ step = "nullify" => tenants = before.tenants
    /\ step = "find" => \A t \in DOMAIN tenants : \A c \in Columns :
                          tenants[t][c] = Original(t, c)
    /\ Unmerged => /\ DOMAIN tenants = DOMAIN before.tenants
                   /\ users = before.users
                   /\ groups = {}
    /\ step = "merge" => GroupsOK
    /\ step \in {"merge", "remove"} => RowsOK /\ OwnersOK
    /\ step \in {"remove", "serve"} => groups = {} /\ UniqueIdentifiers
=============================================================================
